---- MODULE Spec2Model ----
(***************************************************************************)
(* Model of the report pipeline of nx-app-4:                               *)
(*   - aws_utils.process_metric_data / convert_bytes_to_gb /               *)
(*     get_instance_metrics (metric normalisation and fetch fan-out),      *)
(*   - report_generator.create_utilization_report (summary rows, pages),   *)
(*   - ssm_utils.get_client_billing_data and the two HTTP handlers of      *)
(*     app.py that use it (billing preview, report generation).            *)
(*                                                                         *)
(*   - aws_utils.discover_aws_resources (inventory of all regions).        *)
(*                                                                         *)
(* The specifications share the variables; each one leaves the other       *)
(* subsystems' variables at their idle values:                             *)
(*   SpecNormalize  one call of process_metric_data on an arbitrary input  *)
(*   SpecMetrics    one utilization request: get_instance_metrics loop,    *)
(*                  then create_utilization_report and the response        *)
(*   SpecReferences the same request, on long lists of short references    *)
(*   SpecRender     one call of create_utilization_report on the lists     *)
(*                  get_instance_metrics can return, every chart either    *)
(*                  rendering or failing                                   *)
(*   SpecDiscover   one call of discover_aws_resources                     *)
(*   SpecBilling    one billing request (preview or report)                *)
(***************************************************************************)
EXTENDS Integers, Sequences, FiniteSets, TLC

VARIABLES
    \* --- process_metric_data, called on its own -------------------------
    metric_data,     \* the argument: [Datapoints |-> sequence of datapoints]
    series,          \* the returned MetricSeries, or None before the call
    \* --- one utilization request ----------------------------------------
    resource_list,   \* get_instance_metrics' resource_list (after its cap)
    period_days,     \* 1 (daily) or 7 (weekly)
    idx,             \* number of entries of resource_list already handled
    metrics_data,    \* get_instance_metrics' accumulating result list
    provider_log,    \* what the provider answered for each handled entry
    document,        \* the assembled utilization document, or None
    chart_log,       \* what each create_chart call of the assembly did
    upc,             \* position: "start", "fetch", "render", "done"
    \* --- one billing request --------------------------------------------
    request,         \* the JSON body of the HTTP request
    now,             \* wall clock: [month, year] of datetime.now()
    ce_query,        \* the get_cost_and_usage call made, or None
    ce_response,     \* what get_cost_and_usage did for the request
    billing_data,    \* what get_client_billing_data returned, or None
    http_response,   \* what the handler returned, or None
    bpc,             \* position: "received", "responded"
    \* --- one call of discover_aws_resources -----------------------------
    regions,         \* the list get_all_regions returned, or None before it
    calls_done,      \* number of listing calls already made (two per region)
    all_resources,   \* discover_aws_resources' accumulating result list
    listing_log,     \* what the provider did at each call
    dpc,             \* position: "regions", "listing", "returned"
    \* --- one create_chart call, the wizard page, the cleanup service ----
    chart_call,      \* create_chart's arguments and the x-limits it set
    wizard,          \* the wizard page: its script's variables and its DOM
    cleanup_service  \* the CleanupService instance, its timers and the data

vars == <<metric_data, series,
          resource_list, period_days, idx, metrics_data, provider_log,
          document, chart_log, upc,
          request, now, ce_query, ce_response, billing_data, http_response, bpc,
          regions, calls_done, all_resources, listing_log, dpc,
          chart_call, wizard, cleanup_service>>

normalizeVars == <<metric_data, series>>
metricsVars   == <<resource_list, period_days, idx, metrics_data,
                   provider_log, document, chart_log, upc>>
billingVars   == <<request, now, ce_query, ce_response, billing_data,
                   http_response, bpc>>
discoverVars  == <<regions, calls_done, all_resources, listing_log, dpc>>
sessionVars   == <<chart_call, wizard, cleanup_service>>

\* Python's None, kept a record so that it compares with any returned dict
None == [py_none |-> TRUE]

\* the sequences over S of length at most n
RECURSIVE SeqsUpTo(_, _)
SeqsUpTo(S, n) ==
    IF n = 0 THEN {<<>>}
    ELSE LET shorter == SeqsUpTo(S, n - 1) IN
         shorter \cup {Append(q, x) : q \in {s \in shorter : Len(s) = n - 1}, x \in S}

MetricsIdle ==
    /\ resource_list = <<>>
    /\ period_days = 1
    /\ idx = 0
    /\ metrics_data = <<>>
    /\ provider_log = <<>>
    /\ document = None
    /\ chart_log = <<>>
    /\ upc = "idle"

BillingIdle ==
    /\ request = None
    /\ now = None
    /\ ce_query = None
    /\ ce_response = None
    /\ billing_data = None
    /\ http_response = None
    /\ bpc = "idle"

NormalizeIdle ==
    /\ metric_data = None
    /\ series = None

DiscoverIdle ==
    /\ regions = None
    /\ calls_done = 0
    /\ all_resources = <<>>
    /\ listing_log = <<>>
    /\ dpc = "idle"

SessionIdle ==
    /\ chart_call = None
    /\ wizard = None
    /\ cleanup_service = None

(***************************************************************************)
(* Python floats.  A float is IEEE-754 binary: a mantissa of at most       *)
(* Precision bits times a power of two, every operation rounding its       *)
(* exact result to the nearest such number, ties to even.  CPython's       *)
(* float has 53 bits; the model keeps the arithmetic and shortens the      *)
(* mantissa.  Values are [m |-> mantissa, e |-> exponent], m odd or zero,  *)
(* so equal numbers are equal records.  Metric values are non-negative.    *)
(***************************************************************************)
Precision == 3

RECURSIVE Pow2(_)
Pow2(n) == IF n = 0 THEN 1 ELSE 2 * Pow2(n - 1)

RECURSIVE Normalize(_, _)
Normalize(m, e) ==
    IF m = 0 THEN [m |-> 0, e |-> 0]
    ELSE IF m % 2 = 0 THEN Normalize(m \div 2, e + 1)
    ELSE [m |-> m, e |-> e]

RECURSIVE ExcessBits(_)
ExcessBits(m) == IF m < Pow2(Precision) THEN 0 ELSE 1 + ExcessBits(m \div 2)

\* m * 2^e (plus a non-zero remainder below the last bit when sticky)
\* rounded to Precision bits, round-half-to-even.
RoundNearestEven(m, e, sticky) ==
    LET k == ExcessBits(m) IN
    IF k = 0 THEN Normalize(m, e)
    ELSE LET q    == m \div Pow2(k)
             r    == m % Pow2(k)
             half == Pow2(k - 1)
             up   == \/ r > half
                     \/ r = half /\ (sticky \/ q % 2 = 1)
         IN  Normalize(IF up THEN q + 1 ELSE q, e + k)

FromInt(n) == RoundNearestEven(n, 0, FALSE)

MinInt(a, b) == IF a <= b THEN a ELSE b

\* a + b: the exact sum on the smaller exponent, rounded (x + 0 = x exactly)
FAdd(a, b) ==
    IF a.m = 0 THEN b
    ELSE IF b.m = 0 THEN a
    ELSE LET lo == MinInt(a.e, b.e) IN
         RoundNearestEven(a.m * Pow2(a.e - lo) + b.m * Pow2(b.e - lo), lo, FALSE)

\* a / b, b # 0: the quotient of the mantissas is taken with enough extra
\* bits (2 * Precision + 1) that the rounding sees the guard bit.
FDiv(a, b) ==
    LET s   == 2 * Precision + 1
        num == a.m * Pow2(s)
    IN  RoundNearestEven(num \div b.m, a.e - b.e - s, num % b.m # 0)

FLeq(a, b) ==
    IF a.m = 0 THEN TRUE
    ELSE IF b.m = 0 THEN FALSE
    ELSE LET lo == MinInt(a.e, b.e) IN
         a.m * Pow2(a.e - lo) <= b.m * Pow2(b.e - lo)

FLess(a, b) == ~FLeq(b, a)

(***************************************************************************)
(* aws_utils.process_metric_data                                           *)
(***************************************************************************)
\* point.get('Average', 0)
AverageOf(point) ==
    IF "Average" \in DOMAIN point THEN point.Average ELSE FromInt(0)

\* sorted(..., key=lambda x: x['Timestamp']): Python's sort is stable, an
\* element goes after every element already placed whose key is <= its own.
RECURSIVE InsertByTimestamp(_, _)
InsertByTimestamp(sorted, x) ==
    IF sorted = <<>> THEN <<x>>
    ELSE IF sorted[Len(sorted)].Timestamp <= x.Timestamp
         THEN Append(sorted, x)
         ELSE Append(InsertByTimestamp(SubSeq(sorted, 1, Len(sorted) - 1), x),
                     sorted[Len(sorted)])

RECURSIVE SortedByTimestampFrom(_, _, _)
SortedByTimestampFrom(dps, i, acc) ==
    IF i > Len(dps) THEN acc
    ELSE SortedByTimestampFrom(dps, i + 1, InsertByTimestamp(acc, dps[i]))

SortedByTimestampNoSort(dps) == dps

SortedByTimestamp(dps) == SortedByTimestampFrom(dps, 1, <<>>)

\* sum(values): a left fold of float additions starting from 0
RECURSIVE SumFrom(_, _, _)
SumFrom(values, i, acc) ==
    IF i > Len(values) THEN acc
    ELSE SumFrom(values, i + 1, FAdd(acc, values[i]))

Sum(values) == SumFrom(values, 1, FromInt(0))

\* min(values) / max(values): the first smallest / largest element
RECURSIVE MinFrom(_, _, _)
MinFrom(values, i, best) ==
    IF i > Len(values) THEN best
    ELSE MinFrom(values, i + 1,
                 IF FLess(values[i], best) THEN values[i] ELSE best)

RECURSIVE MaxFrom(_, _, _)
MaxFrom(values, i, best) ==
    IF i > Len(values) THEN best
    ELSE MaxFrom(values, i + 1,
                 IF FLess(best, values[i]) THEN values[i] ELSE best)

EmptySeries ==
    [timestamps |-> <<>>, values |-> <<>>,
     average |-> FromInt(0), min |-> FromInt(0), max |-> FromInt(0)]

process_metric_data(md) ==
    IF md = None \/ "Datapoints" \notin DOMAIN md \/ md.Datapoints = <<>>
    THEN EmptySeries
    ELSE LET datapoints == SortedByTimestamp(md.Datapoints)
             timestamps == [i \in 1..Len(datapoints) |-> datapoints[i].Timestamp]
             values     == [i \in 1..Len(datapoints) |-> AverageOf(datapoints[i])]
         IN  [timestamps |-> timestamps,
              values     |-> values,
              average    |-> FDiv(Sum(values), FromInt(Len(values))),
              min        |-> MinFrom(values, 2, values[1]),
              max        |-> MaxFrom(values, 2, values[1])]

(***************************************************************************)
(* aws_utils.convert_bytes_to_gb: divides the Average, Minimum and Maximum *)
(* of every datapoint by 1024 * 1024 * 1024 (in place, in the source).     *)
(***************************************************************************)
BytesPerGB == FromInt(1024 * 1024 * 1024)

BytesPerMB == FromInt(1024 * 1024)

ConvertPoint(point, divisor) ==
    [k \in DOMAIN point |->
        IF k \in {"Average", "Minimum", "Maximum"}
        THEN FDiv(point[k], divisor) ELSE point[k]]

convert_bytes_to_mb(data) ==
    [data EXCEPT !.Datapoints =
        [i \in 1..Len(data.Datapoints) |-> ConvertPoint(data.Datapoints[i], BytesPerMB)]]

convert_bytes_to_gb(data) ==
    IF "Datapoints" \notin DOMAIN data \/ data.Datapoints = <<>> THEN data
    ELSE [data EXCEPT !.Datapoints =
            [i \in 1..Len(data.Datapoints) |-> ConvertPoint(data.Datapoints[i], BytesPerGB)]]

(***************************************************************************)
(* The provider.  The account holds three EC2 instances and two RDS        *)
(* instances in us-east-1; CloudWatch holds, per instance and metric, a     *)
(* list of datapoints (unordered, as the API returns them).  Percentages   *)
(* for EC2 and for CPU, bytes for RDS FreeableMemory / FreeStorageSpace.   *)
(***************************************************************************)
DefaultRegion == "us-east-1"

Ec2Account ==
    [id \in {"i-lin", "i-win", "i-stop"} |->
        CASE id = "i-lin"  -> [InstanceType |-> "t3.micro", State |-> "running",
                               Tags |-> <<[Key |-> "Name", Value |-> "web"]>>]
          [] id = "i-win"  -> [InstanceType |-> "t3.large", State |-> "running",
                               Platform |-> "windows"]
          [] id = "i-stop" -> [InstanceType |-> "t2.small", State |-> "stopped",
                               Tags |-> <<[Key |-> "env", Value |-> "dev"]>>]]

RdsAccount ==
    [id \in {"db-1", "db-stop"} |->
        [DBInstanceClass |-> "db.t3.micro",
         DBInstanceStatus |-> IF id = "db-stop" THEN "stopped" ELSE "available",
         Engine |-> "mysql"]]

Pt(t, v) == [Timestamp |-> t, Average |-> v]

Bytes(m, e) == Normalize(m, e)

CloudWatchContent(id, key) ==
    CASE id = "i-lin" /\ key = "cpu"     -> <<Pt(2, FromInt(3)), Pt(1, FromInt(1))>>
      [] id = "i-lin" /\ key = "memory"  -> <<Pt(1, FromInt(2))>>
      [] id = "i-lin" /\ key = "disk"    -> <<Pt(1, FromInt(1)), Pt(2, FromInt(1))>>
      [] id = "i-win" /\ key = "cpu"     -> <<Pt(1, FromInt(1))>>
      [] id = "i-win" /\ key = "disk C"  -> <<Pt(2, FromInt(2)), Pt(1, FromInt(3))>>
      [] id = "db-1"  /\ key = "cpu"     -> <<Pt(1, FromInt(2)), Pt(2, FromInt(2))>>
      [] id = "db-1"  /\ key = "memory"  -> <<Pt(2, Bytes(1, 30)), Pt(1, Bytes(3, 29))>>
      [] id = "db-1"  /\ key = "disk"    -> <<Pt(1, Bytes(5, 30))>>
      [] OTHER -> <<>>

(***************************************************************************)
(* aws_utils.get_cloudwatch_metric_data: the provider call either returns  *)
(* the datapoints or fails (timeout, permission, missing metric); the      *)
(* except clause turns any failure into an empty datapoint list.           *)
(***************************************************************************)
Raised == [py_raised |-> TRUE]

get_cloudwatch_metric_data_raising(id, key, failed) ==
    IF key \in failed THEN Raised
    ELSE [Datapoints |-> CloudWatchContent(id, key)]

get_cloudwatch_metric_data(id, key, failed) ==
    IF key \in failed THEN [Datapoints |-> <<>>]
    ELSE [Datapoints |-> CloudWatchContent(id, key)]

\* the fetches get_ec2_metrics / get_rds_metrics make for an instance
WindowsDrives == <<"C:", "D:", "E:">>

DriveKey(drive) ==
    CASE drive = "C:" -> "disk C" [] drive = "D:" -> "disk D" [] drive = "E:" -> "disk E"

PlatformOf(instance) ==
    IF "Platform" \in DOMAIN instance THEN instance.Platform ELSE "Linux"

Lower(text) ==
    CASE text = "Linux" -> "linux" [] text = "windows" -> "windows"
      [] OTHER -> text

DiskKeys(os_type) ==
    IF os_type = "windows" THEN {DriveKey(WindowsDrives[i]) : i \in 1..Len(WindowsDrives)}
    ELSE {"disk"}

\* the value of the last tag whose Key is 'Name', else the default
RECURSIVE NameFromTags(_, _, _)
NameFromTags(tags, i, name) ==
    IF i > Len(tags) THEN name
    ELSE NameFromTags(tags, i + 1,
                      IF tags[i].Key = "Name" THEN tags[i].Value ELSE name)

(***************************************************************************)
(* aws_utils.get_ec2_metrics: None when describe_instances (or anything    *)
(* else inside its try) raises.                                            *)
(***************************************************************************)
get_ec2_metrics(instance_id, region, describe, failed) ==
    IF describe # "ok" \/ region # DefaultRegion \/ instance_id \notin DOMAIN Ec2Account
    THEN None
    ELSE LET instance == Ec2Account[instance_id]
             instance_name ==
                 IF "Tags" \in DOMAIN instance
                 THEN NameFromTags(instance.Tags, 1, instance_id) ELSE instance_id
             platform == PlatformOf(instance)
             os_type  == Lower(platform)
             cpu_data    == get_cloudwatch_metric_data(instance_id, "cpu", failed)
             memory_data == get_cloudwatch_metric_data(instance_id, "memory", failed)
             disk_metrics ==
                 [k \in DiskKeys(os_type) |->
                     get_cloudwatch_metric_data(instance_id, k, failed)]
         IN  IF \/ cpu_data = Raised \/ memory_data = Raised
                \/ \E k \in DOMAIN disk_metrics : disk_metrics[k] = Raised
             THEN None
             ELSE [id |-> instance_id, name |-> instance_name,
                   type |-> instance.InstanceType, state |-> instance.State,
                   os |-> platform, region |-> region,
                   cpu |-> cpu_data, memory |-> memory_data,
                   disk_metrics |-> disk_metrics]

(***************************************************************************)
(* aws_utils.get_rds_metrics                                               *)
(***************************************************************************)
get_rds_metrics(instance_id, region, describe, failed) ==
    IF describe # "ok" \/ region # DefaultRegion \/ instance_id \notin DOMAIN RdsAccount
    THEN None
    ELSE LET instance == RdsAccount[instance_id]
             cpu_data    == get_cloudwatch_metric_data(instance_id, "cpu", failed)
             memory_data == get_cloudwatch_metric_data(instance_id, "memory", failed)
             disk_data   == get_cloudwatch_metric_data(instance_id, "disk", failed)
         IN  IF cpu_data = Raised \/ memory_data = Raised \/ disk_data = Raised
             THEN None
             ELSE [id |-> instance_id, name |-> instance_id,
                   type |-> instance.DBInstanceClass,
                   status |-> instance.DBInstanceStatus,
                   engine |-> instance.Engine, region |-> region,
                   cpu |-> cpu_data, memory |-> memory_data, disk |-> disk_data]

(***************************************************************************)
(* aws_utils.get_instance_metrics.  A resource reference "type|id|region"  *)
(* is modelled by the sequence of its '|'-separated fields, which is what  *)
(* resource.split('|') returns.                                            *)
(***************************************************************************)
WeeklyResourceCap == 5

\* resource_id.startswith('i-')
StartsWithIDash(resource_id) == resource_id \in {"i-lin", "i-win", "i-stop"}

EmptyDict == <<>>

Put(dict, key, value) ==
    [k \in DOMAIN dict \cup {key} |-> IF k = key THEN value ELSE dict[k]]

\* only "type|id|region" resolves
ResolveReferenceStrict(parts) ==
    IF Len(parts) # 3 THEN None
    ELSE [service_type |-> parts[1], instance_id |-> parts[2], region |-> parts[3]]

\* lines 363-385: the (service_type, instance_id, region) a reference
\* resolves to, or None for a reference the loop skips
ResolveReference(parts) ==
    IF Len(parts) # 3
    THEN IF Len(parts) = 1
         THEN IF StartsWithIDash(parts[1])
              THEN [service_type |-> "EC2", instance_id |-> parts[1], region |-> DefaultRegion]
              ELSE [service_type |-> "RDS", instance_id |-> parts[1], region |-> DefaultRegion]
         ELSE None
    ELSE [service_type |-> parts[1], instance_id |-> parts[2], region |-> parts[3]]

\* lines 412-425
Ec2DiskMetrics(instance_info, metrics) ==
    LET dm == instance_info.disk_metrics
        present == {k \in DOMAIN dm : dm[k].Datapoints # <<>>}
        disk_metrics_processed == [k \in present |-> process_metric_data(dm[k])]
        m1 == IF present # {}
              THEN Put(metrics, "disk_metrics", disk_metrics_processed) ELSE metrics
    IN  IF "disk" \in DOMAIN dm /\ dm["disk"].Datapoints # <<>>
        THEN Put(m1, "disk", process_metric_data(dm["disk"])) ELSE m1

\* lines 389-427: the processed_result appended for an EC2 instance
Ec2ProcessedResult(instance_id, region, instance_info) ==
    LET m0 == EmptyDict
        m1 == IF instance_info.cpu.Datapoints # <<>>
              THEN Put(m0, "cpu", process_metric_data(instance_info.cpu)) ELSE m0
        m2 == IF instance_info.memory.Datapoints # <<>>
              THEN Put(m1, "memory", process_metric_data(instance_info.memory)) ELSE m1
    IN  [id |-> instance_id, name |-> instance_info.name, type |-> instance_info.type,
         state |-> instance_info.state, os |-> instance_info.os, region |-> region,
         service_type |-> "EC2", metrics |-> Ec2DiskMetrics(instance_info, m2)]

\* lines 429-458: the processed_result appended for an RDS instance
RdsProcessedResult(result) ==
    LET m0 == EmptyDict
        m1 == IF result.cpu.Datapoints # <<>>
              THEN Put(m0, "cpu", process_metric_data(result.cpu)) ELSE m0
        m2 == IF result.memory.Datapoints # <<>>
              THEN Put(m1, "memory",
                       process_metric_data(convert_bytes_to_gb(result.memory)))
              ELSE m1
        m3 == IF result.disk.Datapoints # <<>>
              THEN Put(m2, "disk",
                       process_metric_data(convert_bytes_to_gb(result.disk)))
              ELSE m2
    IN  [id |-> result.id, name |-> result.name, type |-> result.type,
         state |-> result.status, engine |-> result.engine, region |-> result.region,
         service_type |-> "RDS", metrics |-> m3]

\* lines 361-464, one iteration of the loop: the entries the iteration
\* appends to metrics_data (none or one).  describe is what the details
\* call did ("ok" / "fail"), failed the metric fetches that failed.
LoopBody(parts, describe, failed) ==
    LET ref == ResolveReference(parts) IN
    IF ref = None THEN <<>>
    ELSE IF ref.service_type = "EC2"
         THEN LET instance_info ==
                      get_ec2_metrics(ref.instance_id, ref.region, describe, failed)
              IN  IF instance_info # None
                  THEN <<Ec2ProcessedResult(ref.instance_id, ref.region, instance_info)>>
                  ELSE <<>>
    ELSE IF ref.service_type = "RDS"
         THEN LET result ==
                      get_rds_metrics(ref.instance_id, ref.region, describe, failed)
              IN  IF result # None THEN <<RdsProcessedResult(result)>> ELSE <<>>
    ELSE <<>>

\* the provider calls an iteration makes: whether it asks for the
\* instance's details, and the metric fetches that follow when it gets them
CallsDescribe(parts) ==
    LET ref == ResolveReference(parts) IN
    ref # None /\ ref.service_type \in {"EC2", "RDS"}

FetchKeys(parts) ==
    LET ref == ResolveReference(parts) IN
    IF ref = None \/ ref.region # DefaultRegion THEN {}
    ELSE IF ref.service_type = "EC2" /\ ref.instance_id \in DOMAIN Ec2Account
         THEN {"cpu", "memory"}
              \cup DiskKeys(Lower(PlatformOf(Ec2Account[ref.instance_id])))
    ELSE IF ref.service_type = "RDS" /\ ref.instance_id \in DOMAIN RdsAccount
         THEN {"cpu", "memory", "disk"}
    ELSE {}

(***************************************************************************)
(* report_generator.create_utilization_report: the summary table of each   *)
(* service type and the page of each resource of metrics_data.             *)
(***************************************************************************)
\* resource.get(key, default)
Get(resource, key, default) ==
    IF key \in DOMAIN resource THEN resource[key] ELSE default

\* lines 349-355: service_types[t], the resources of type t in order
OfServiceType(md, t) ==
    SelectSeq(md, LAMBDA r : Get(r, "service_type", "EC2") = t)

\* lines 357-413
SummaryTables(md) ==
    LET ec2 == OfServiceType(md, "EC2")
        rds == OfServiceType(md, "RDS")
        t0  == EmptyDict
        t1  == IF ec2 # <<>>
               THEN Put(t0, "EC2",
                        [i \in 1..Len(ec2) |->
                            <<ec2[i].id, ec2[i].name, ec2[i].type, ec2[i].state>>])
               ELSE t0
    IN  IF rds # <<>>
        THEN Put(t1, "RDS",
                 [i \in 1..Len(rds) |->
                     <<rds[i].id, rds[i].type, rds[i].state,
                       Get(rds[i], "engine", "Unknown")>>])
        ELSE t1

\* lines 421-475: the heading and the identity table of a resource's page
ResourcePage(resource) ==
    IF Get(resource, "service_type", "EC2") \in {"EC2", "VM"}
    THEN [heading |-> <<"Host", resource.name>>,
          info    |-> <<resource.id, resource.type,
                        Get(resource, "os", "Linux"), resource.state>>]
    ELSE [heading |-> <<"RDS Instance", resource.name>>,
          info    |-> <<resource.id, resource.type, resource.state,
                        Get(resource, "engine", "Unknown")>>]

(***************************************************************************)
(* report_generator.create_chart.  Rendering the figure either works       *)
(* ("ok"), or raises and the minimal 'Chart Error' figure is rendered in   *)
(* its place ("error"), or that raises too and b'' is returned ("empty").  *)
(* The returned bytes are modelled by what the picture shows: the Y-axis   *)
(* label and the suffix of the three numbers of the stats line for the     *)
(* figure, <<"Chart Error">> for the error figure, <<>> for b''.           *)
(***************************************************************************)
ChartOutcomes == {"ok", "error", "empty"}

\* the words of lines 159-164 that occur in metric_name.lower(), for the
\* metric names the assembler passes (lines 532, 601, 672, 740)
KeywordsIn(metric_name) ==
    CASE metric_name = "CPU Utilization"         -> {}
      [] metric_name = "Memory Utilization"      -> {"memory"}
      [] metric_name = "Available Memory"        -> {"memory"}
      [] metric_name = "Disk disk Utilization"   -> {"disk"}
      [] metric_name = "Disk disk C Utilization" -> {"disk"}
      [] metric_name = "Disk disk D Utilization" -> {"disk"}
      [] metric_name = "Disk disk E Utilization" -> {"disk"}
      [] metric_name = "Disk Utilization"        -> {"disk"}
      [] metric_name = "Available Storage"       -> {"storage"}

\* line 672: f"Disk {disk_name} Utilization"
DriveMetricName(disk_name) ==
    CASE disk_name = "disk"   -> "Disk disk Utilization"
      [] disk_name = "disk C" -> "Disk disk C Utilization"
      [] disk_name = "disk D" -> "Disk disk D Utilization"
      [] disk_name = "disk E" -> "Disk disk E Utilization"

\* lines 159-172: the unit is chosen from the metric name alone
create_chart(data, metric_name, service_type, outcome) ==
    CASE outcome = "ok" ->
           IF \/ "gb" \in KeywordsIn(metric_name)
              \/ KeywordsIn(metric_name) \cap {"memory", "disk", "storage"} # {}
              \/ (service_type \in {"RDS"} /\ "disk" \in KeywordsIn(metric_name))
           THEN IF KeywordsIn(metric_name) \cap {"disk", "storage"} # {}
                THEN <<"Available Storage (GB)", "">>
                ELSE <<"Available Memory (GB)", "">>
           ELSE <<"CPU Utilization (Percent)", "%">>
      [] outcome = "error" -> <<"Chart Error">>
      [] outcome = "empty" -> <<>>

\* a numeric literal of the source (15, 85, 1000, ...) as a float: these are
\* exactly representable in a Python float, and comparisons are exact
Lit(n) == Normalize(n, 0)

\* the flowables appended to elements (spacers left out)
Label(text) == [kind |-> "label", text |-> text]

Remark(text) == [kind |-> "remark", text |-> text]

AverageTable(value, unit) == [kind |-> "table", value |-> value, unit |-> unit]

Image(png) == [kind |-> "image", png |-> png]

\* lines 541-547, 610-616, 681-687: the chart, or the notice when the bytes
\* are empty
ChartOrNotice(chart, notice) ==
    IF chart # <<>> THEN Image(chart) ELSE Remark(notice)

HasTimestamps(metrics, key) ==
    key \in DOMAIN metrics /\ metrics[key].timestamps # <<>>

\* 'high' from 85 and 'low' up to 15
CpuRemarkInclusive(avg_val) ==
    IF FLeq(Lit(85), avg_val)
    THEN "Average utilisation is high. Explore possibility of optimising the resources."
    ELSE IF FLeq(avg_val, Lit(15))
    THEN "Average utilisation is low. No action needed at the time."
    ELSE "Average utilisation is normal. No action needed at the time."

\* lines 500-507
CpuRemark(avg_val) ==
    IF FLess(Lit(85), avg_val)
    THEN "Average utilisation is high. Explore possibility of optimising the resources."
    ELSE IF FLess(avg_val, Lit(15))
    THEN "Average utilisation is low. No action needed at the time."
    ELSE "Average utilisation is normal. No action needed at the time."

\* lines 491-549
CpuSection(service_type, metrics, charts) ==
    IF HasTimestamps(metrics, "cpu")
    THEN LET cpu_data == metrics["cpu"]
             avg_val  == cpu_data.average
         IN  <<Label("CPU UTILIZATION"),
               Remark(CpuRemark(avg_val)),
               AverageTable(avg_val, "%"),
               ChartOrNotice(create_chart(cpu_data, "CPU Utilization",
                                          service_type, charts["cpu"]),
                             "CPU chart could not be generated")>>
    ELSE <<>>

\* lines 564 and 704: avg_val / (1024 * 1024 * 1024) if avg_val > 1000
AverageInGB(avg_val) ==
    IF FLess(Lit(1000), avg_val) THEN FDiv(avg_val, BytesPerGB) ELSE avg_val

\* lines 562-577
MemoryRemark(service_type, avg_val) ==
    IF service_type \in {"RDS", "Database"}
    THEN IF FLess(AverageInGB(avg_val), Lit(1))
         THEN "Memory availability is low. Consider upgrading the instance."
         ELSE "Memory availability is normal."
    ELSE IF FLess(Lit(90), avg_val)
         THEN "Memory utilization is high. Consider upgrading the instance."
         ELSE IF FLess(avg_val, Lit(50))
         THEN "Average utilisation is low. No action needed at the time."
         ELSE "Average utilisation is normal. No action needed at the time."

\* lines 552-618
MemorySection(service_type, metrics, charts) ==
    IF HasTimestamps(metrics, "memory")
    THEN LET memory_data == metrics["memory"]
             avg_val     == memory_data.average
         IN  <<Label("MEMORY UTILIZATION"),
               Remark(MemoryRemark(service_type, avg_val)),
               (IF service_type \in {"RDS", "Database"}
                THEN AverageTable(AverageInGB(avg_val), "GB")
                ELSE AverageTable(avg_val, "%")),
               ChartOrNotice(create_chart(memory_data,
                                          (IF service_type \notin {"RDS"}
                                           THEN "Memory Utilization"
                                           ELSE "Available Memory"),
                                          service_type, charts["memory"]),
                             "Memory chart could not be generated")>>
    ELSE <<>>

\* lines 643-648 and 711-716
DiskRemark(avg_val) ==
    IF FLess(Lit(85), avg_val)
    THEN "Average Disk utilisation is high. Explore possibility of optimising the resources."
    ELSE IF FLess(avg_val, Lit(30))
    THEN "Average Disk utilisation is low. No action needed at the time."
    ELSE "Average Disk utilisation is Normal."

\* lines 631-638: 'C' in disk_name, 'D' in disk_name, 'E' in disk_name
DiskTitle(disk_name) ==
    CASE disk_name = "disk C" -> "DISK C FREE PERCENTAGE"
      [] disk_name = "disk D" -> "DISK D FREE PERCENTAGE"
      [] disk_name = "disk E" -> "DISK E FREE PERCENTAGE"
      [] OTHER                -> "DISK UTILIZATION"

\* disk_metrics.items(): the keys in the order get_ec2_metrics inserted them
DiskItems(disk_metrics) ==
    SelectSeq(<<"disk C", "disk D", "disk E", "disk">>,
              LAMBDA k : k \in DOMAIN disk_metrics)

\* lines 626-689, one iteration of the loop over disk_metrics
DriveSection(service_type, disk_name, disk_data, charts) ==
    IF disk_data.timestamps # <<>>
    THEN <<Label(DiskTitle(disk_name)),
           Remark(DiskRemark(disk_data.average)),
           AverageTable(disk_data.average, "%"),
           ChartOrNotice(create_chart(disk_data, DriveMetricName(disk_name),
                                      service_type, charts[disk_name]),
                         "Disk chart could not be generated")>>
    ELSE <<>>

RECURSIVE DriveSections(_, _, _, _, _)
DriveSections(service_type, disk_metrics, items, charts, i) ==
    IF i > Len(items) THEN <<>>
    ELSE DriveSection(service_type, items[i], disk_metrics[items[i]], charts)
         \o DriveSections(service_type, disk_metrics, items, charts, i + 1)

\* lines 737-749: the chart of the general disk section goes into
\* Image(io.BytesIO(disk_chart)) unguarded, which raises on b'' (no picture
\* can be read from empty bytes)
GeneralDiskRaises(metrics, charts) ==
    /\ HasTimestamps(metrics, "disk")
    /\ charts["general"] = "empty"

\* lines 692-750: the general disk section
GeneralDiskSection(service_type, metrics, charts) ==
    IF HasTimestamps(metrics, "disk")
    THEN LET disk_data  == metrics["disk"]
             avg_val    == disk_data.average
             disk_chart == create_chart(disk_data,
                                        (IF service_type \notin {"RDS"}
                                         THEN "Disk Utilization"
                                         ELSE "Available Storage"),
                                        service_type, charts["general"])
         IN  <<Label("DISK UTILIZATION"),
               (IF service_type \in {"RDS", "Database"}
                THEN Remark(IF FLess(AverageInGB(avg_val), Lit(5))
                            THEN "Storage availability is low. Consider increasing storage."
                            ELSE "Storage availability is normal.")
                ELSE Remark(DiskRemark(avg_val))),
               (IF service_type \in {"RDS", "Database"}
                THEN AverageTable(AverageInGB(avg_val), "GB")
                ELSE AverageTable(avg_val, "%")),
               Image(disk_chart)>>
    ELSE <<>>

\* no resource counts as stopped
IsStoppedNever(resource) == FALSE

\* line 478: resource.get('state', '').lower() == 'stopped'
IsStopped(resource) == Lower(Get(resource, "state", "")) = "stopped"

\* disk_metrics_processed never set
DiskMetricsNeverProcessed(metrics) == FALSE

\* whether the loop over disk_metrics sets disk_metrics_processed
DiskMetricsProcessed(metrics) ==
    /\ "disk_metrics" \in DOMAIN metrics
    /\ \E k \in DOMAIN metrics["disk_metrics"] :
           metrics["disk_metrics"][k].timestamps # <<>>

\* the create_chart calls made for a resource, by the section that makes
\* them: "cpu", "memory", a key of disk_metrics, "general" (lines 692-750)
ChartCalls(resource) ==
    LET metrics == Get(resource, "metrics", EmptyDict) IN
    IF IsStopped(resource) THEN {}
    ELSE {k \in {"cpu", "memory"} : HasTimestamps(metrics, k)}
         \cup (IF "disk_metrics" \in DOMAIN metrics
               THEN {k \in DOMAIN metrics["disk_metrics"] :
                        metrics["disk_metrics"][k].timestamps # <<>>}
               ELSE {})
         \cup (IF ~DiskMetricsProcessed(metrics) /\ HasTimestamps(metrics, "disk")
               THEN {"general"} ELSE {})

\* whether assembling the resource's page raises
PageRaises(resource, charts) ==
    /\ ~IsStopped(resource)
    /\ ~DiskMetricsProcessed(Get(resource, "metrics", EmptyDict))
    /\ GeneralDiskRaises(Get(resource, "metrics", EmptyDict), charts)

\* the disk sections put before the CPU and memory sections
PageBodyDiskFirst(resource, charts) ==
    LET service_type == Get(resource, "service_type", "EC2")
        metrics      == Get(resource, "metrics", EmptyDict)
    IN  IF IsStopped(resource)
        THEN <<Label("Instance is stopped - no metrics available")>>
        ELSE LET cpu    == CpuSection(service_type, metrics, charts)
                 memory == MemorySection(service_type, metrics, charts)
                 drives == IF "disk_metrics" \in DOMAIN metrics
                           THEN DriveSections(service_type, metrics["disk_metrics"],
                                              DiskItems(metrics["disk_metrics"]),
                                              charts, 1)
                           ELSE <<>>
                 general == IF ~DiskMetricsProcessed(metrics)
                            THEN GeneralDiskSection(service_type, metrics, charts)
                            ELSE <<>>
             IN  drives \o general \o cpu \o memory

\* lines 478-750: what follows the identity table on a resource's page.
\* charts gives the outcome of each create_chart call.
PageBody(resource, charts) ==
    LET service_type == Get(resource, "service_type", "EC2")
        metrics      == Get(resource, "metrics", EmptyDict)
    IN  IF IsStopped(resource)
        THEN <<Label("Instance is stopped - no metrics available")>>
        ELSE LET cpu    == CpuSection(service_type, metrics, charts)
                 memory == MemorySection(service_type, metrics, charts)
                 drives == IF "disk_metrics" \in DOMAIN metrics
                           THEN DriveSections(service_type, metrics["disk_metrics"],
                                              DiskItems(metrics["disk_metrics"]),
                                              charts, 1)
                           ELSE <<>>
                 general == IF ~DiskMetricsProcessed(metrics)
                            THEN GeneralDiskSection(service_type, metrics, charts)
                            ELSE <<>>
             IN  cpu \o memory \o drives \o general

\* lines 272-750: the document, or Raised when a page raises.  charts[i] is
\* the outcome of the create_chart calls made for metrics_data[i].
create_utilization_report(md, charts) ==
    IF \E i \in 1..Len(md) : PageRaises(md[i], charts[i])
    THEN Raised
    ELSE [summary |-> SummaryTables(md),
          pages   |-> [i \in 1..Len(md) |->
                          [heading |-> ResourcePage(md[i]).heading,
                           info    |-> ResourcePage(md[i]).info,
                           body    |-> PageBody(md[i], charts[i])]]]

\* every way the create_chart calls of a document can turn out: one
\* outcome per call of each resource
RECURSIVE ChartLogs(_, _)
ChartLogs(md, i) ==
    IF i > Len(md) THEN {<<>>}
    ELSE {<<c>> \o rest : c \in [ChartCalls(md[i]) -> ChartOutcomes],
                          rest \in ChartLogs(md, i + 1)}

\* every create_chart call of the document turning out the same way
AllCharts(md, outcome) ==
    [i \in 1..Len(md) |-> [k \in ChartCalls(md[i]) |-> outcome]]

(***************************************************************************)
(* SpecMetrics: one utilization request to /api/generate-report.           *)
(* generate_report_api checks and caps the resources, then                 *)
(* generate_comprehensive_report calls get_instance_metrics (its cap, then *)
(* one loop iteration per resource, each with the provider's answers for   *)
(* that resource), assembles the document from the returned list, and the  *)
(* handler answers with the file or with an error.                         *)
(***************************************************************************)
MaxResources == 2

HandlerWeeklyCap == 15

Refs ==
    { <<"EC2", "i-lin", "us-east-1">>,
      <<"EC2", "i-win", "us-east-1">>,
      <<"EC2", "i-stop", "us-east-1">>,
      <<"RDS", "db-1", "us-east-1">>,
      <<"EC2", "i-lin">>,
      <<"VM", "vm-1", "eastus">> }

\* the JSON bodies of utilization requests over the given resource lists
UtilizationRequests(lists) ==
    [endpoint : {"report"}, reportType : {"utilization"}, clientName : {"acme"},
     cloudProvider : {"AWS"}, resources : lists, frequency : {"daily", "weekly"}]

\* the state in which the handler has received the request
RequestReceived ==
    /\ resource_list = <<>>
    /\ period_days = 1
    /\ idx = 0
    /\ metrics_data = <<>>
    /\ provider_log = <<>>
    /\ document = None
    /\ chart_log = <<>>
    /\ upc = "received"
    /\ now = None
    /\ ce_query = None
    /\ ce_response = None
    /\ billing_data = None
    /\ http_response = None
    /\ bpc = "idle"
    /\ NormalizeIdle
    /\ DiscoverIdle
    /\ SessionIdle

MetricsInit ==
    /\ request \in UtilizationRequests(SeqsUpTo(Refs, MaxResources))
    /\ RequestReceived

\* app.py 2368-2371
CapHandler(resources, frequency) ==
    IF frequency = "weekly" /\ Len(resources) > HandlerWeeklyCap
    THEN SubSeq(resources, 1, HandlerWeeklyCap)
    ELSE resources

\* app.py 2337-2401 and report_generator.py 914-927: the handler up to the
\* call of get_instance_metrics
GenerateReportApi ==
    /\ upc = "received"
    /\ IF request.resources = <<>>
       THEN /\ http_response' =
                   [status |-> 400, success |-> FALSE,
                    error |-> "Resources are required for utilization reports"]
            /\ upc' = "done"
            /\ UNCHANGED <<resource_list, period_days>>
       ELSE /\ resource_list' = CapHandler(request.resources, request.frequency)
            /\ period_days' = (IF request.frequency = "daily" THEN 1 ELSE 7)
            /\ upc' = "start"
            /\ UNCHANGED http_response
    /\ UNCHANGED <<idx, metrics_data, provider_log, document, chart_log,
                   request, now, ce_query, ce_response, billing_data, bpc,
                   normalizeVars, discoverVars, sessionVars>>

\* the last WeeklyResourceCap entries instead of the first
CapWeeklyLast(list, days) ==
    IF days > 1 /\ Len(list) > WeeklyResourceCap
    THEN SubSeq(list, Len(list) - WeeklyResourceCap + 1, Len(list))
    ELSE list

\* aws_utils.py 354-357
CapWeekly(list, days) ==
    IF days > 1 /\ Len(list) > WeeklyResourceCap
    THEN SubSeq(list, 1, WeeklyResourceCap)
    ELSE list

\* lines 344-359
StartGetInstanceMetrics ==
    /\ upc = "start"
    /\ resource_list' = CapWeekly(resource_list, period_days)
    /\ upc' = "fetch"
    /\ UNCHANGED <<period_days, idx, metrics_data, provider_log, document,
                   chart_log, normalizeVars, billingVars, discoverVars, sessionVars>>

\* what the details call can do for a reference: fail, or succeed when the
\* instance exists in the region
DescribeOutcomes(parts) ==
    IF ~CallsDescribe(parts) THEN {"none"}
    ELSE IF FetchKeys(parts) = {} THEN {"fail"}
    ELSE {"ok", "fail"}

\* A failed fetch returns the same empty datapoint list as a successful
\* fetch of a metric that has no datapoints, so the two are one outcome:
\* the failures that differ are those of metrics with content.
FailableKeys(parts) ==
    {k \in FetchKeys(parts) :
        CloudWatchContent(ResolveReference(parts).instance_id, k) # <<>>}

\* lines 361-464: one iteration
ProcessResource ==
    /\ upc = "fetch"
    /\ idx < Len(resource_list)
    /\ LET parts == resource_list[idx + 1] IN
       \E describe \in DescribeOutcomes(parts) :
       \E failed \in (IF describe = "ok" THEN SUBSET FailableKeys(parts) ELSE {{}}) :
          /\ metrics_data' = metrics_data \o LoopBody(parts, describe, failed)
          /\ provider_log' =
                 Append(provider_log,
                        [resource |-> parts, describe |-> describe,
                         failed |-> failed, len_after |-> Len(metrics_data')])
    /\ idx' = idx + 1
    /\ UNCHANGED <<resource_list, period_days, document, chart_log, upc,
                   normalizeVars, billingVars, discoverVars, sessionVars>>

\* The create_chart outcomes followed in a request: every chart renders,
\* or every chart comes back empty where that makes the assembly raise
\* (SpecRender follows every outcome of every chart).
RequestChartLogs(md) ==
    {AllCharts(md, "ok")}
    \cup {c \in {AllCharts(md, "empty")} : create_utilization_report(md, c) = Raised}

\* aws_utils.py 466, report_generator.py 929-936 and app.py 2403-2444: the
\* document is assembled and sent, or the handler's except clause answers
CreateUtilizationReport ==
    /\ upc = "fetch"
    /\ idx = Len(resource_list)
    /\ \E charts \in RequestChartLogs(metrics_data) :
          /\ chart_log' = charts
          /\ document' = create_utilization_report(metrics_data, charts)
          /\ http_response' =
                 IF document' = Raised
                 THEN [status |-> 500, success |-> FALSE,
                       error |-> "Failed to generate report"]
                 ELSE [status |-> 200, success |-> TRUE, pdf |-> document',
                       filename |-> <<request.clientName, "utilization-report.pdf">>]
    /\ upc' = "done"
    /\ UNCHANGED <<resource_list, period_days, idx, metrics_data, provider_log,
                   request, now, ce_query, ce_response, billing_data, bpc,
                   normalizeVars, discoverVars, sessionVars>>

MetricsNext ==
    \/ GenerateReportApi
    \/ StartGetInstanceMetrics
    \/ ProcessResource
    \/ CreateUtilizationReport

SpecMetrics == MetricsInit /\ [][MetricsNext]_vars

(***************************************************************************)
(* SpecReferences: the same request on lists of up to MaxListLen           *)
(* single-part references (a bare instance id), long enough for the weekly *)
(* cap of get_instance_metrics to apply.                                   *)
(***************************************************************************)
MaxListLen == 6

ShortRefs == { <<"i-stop">>, <<"db-stop">> }

ReferencesInit ==
    /\ request \in UtilizationRequests(SeqsUpTo(ShortRefs, MaxListLen))
    /\ RequestReceived

SpecReferences == ReferencesInit /\ [][MetricsNext]_vars

\* --- properties of a utilization request --------------------------------

\* the entry of metrics_data that iteration i appended, or None
EntryOf(i) ==
    LET before == IF i = 1 THEN 0 ELSE provider_log[i - 1].len_after
        after  == provider_log[i].len_after
    IN  IF after > before THEN metrics_data[after] ELSE None

\* the series an entry holds for a fetched metric, or None.  A Linux
\* instance's root disk is stored under metrics.disk_metrics.disk and again
\* under metrics.disk.
SeriesOf(entry, key) ==
    LET m == entry.metrics IN
    IF key \in {"cpu", "memory"} THEN Get(m, key, None)
    ELSE IF entry.service_type = "RDS"
         THEN (IF key = "disk" THEN Get(m, "disk", None) ELSE None)
    ELSE Get(Get(m, "disk_metrics", EmptyDict), key, None)

\* the raw datapoint of a content list with the given timestamp
RawAt(id, key, t) ==
    LET c == CloudWatchContent(id, key) IN
    c[CHOOSE i \in 1..Len(c) : c[i].Timestamp = t]

IsGigabytesOf(value, raw) ==
    IF raw.m = 0 THEN value.m = 0
    ELSE value.m = raw.m /\ value.e = raw.e - 30

StatsFromValues(sr) ==
    /\ sr.average = FDiv(Sum(sr.values), FromInt(Len(sr.values)))
    /\ \E i \in 1..Len(sr.values) : sr.values[i] = sr.min
    /\ \E i \in 1..Len(sr.values) : sr.values[i] = sr.max
    /\ \A i \in 1..Len(sr.values) :
           FLeq(sr.min, sr.values[i]) /\ FLeq(sr.values[i], sr.max)

\* C8: for an RDS resource the memory and disk datapoints are divided by
\* 2^30 before values, average, min and max are computed (a raw 2^30 gives
\* the value 1, the statistics are those of the gigabyte values); CPU series
\* and every EC2 series hold the raw values unconverted.
C8_RdsBytesToGigabytes ==
    \A n \in 1..Len(metrics_data) :
        LET entry == metrics_data[n] IN
        \A key \in {"cpu", "memory", "disk", "disk C", "disk D", "disk E"} :
            LET sr == SeriesOf(entry, key) IN
            sr # None =>
                /\ Len(sr.values) = Len(CloudWatchContent(entry.id, key))
                /\ StatsFromValues(sr)
                /\ \A i \in 1..Len(sr.values) :
                       LET raw == RawAt(entry.id, key, sr.timestamps[i]).Average IN
                       IF entry.service_type = "RDS" /\ key \in {"memory", "disk"}
                       THEN /\ IsGigabytesOf(sr.values[i], raw)
                            /\ (raw = Normalize(1, 30) => sr.values[i] = FromInt(1))
                       ELSE sr.values[i] = raw

\* C8 witness: an RDS memory series was produced from a raw datapoint of
\* 2^30 bytes, next to an EC2 series
C8_Witness ==
    /\ \E n \in 1..Len(metrics_data) :
           /\ metrics_data[n].service_type = "RDS"
           /\ "memory" \in DOMAIN metrics_data[n].metrics
           /\ "disk" \in DOMAIN metrics_data[n].metrics
           /\ \E i \in 1..Len(metrics_data[n].metrics.memory.values) :
                  metrics_data[n].metrics.memory.values[i] = FromInt(1)
    /\ \E n \in 1..Len(metrics_data) :
           /\ metrics_data[n].service_type = "EC2"
           /\ "memory" \in DOMAIN metrics_data[n].metrics

\* what a metric's series is when nothing fails: the normalised content
\* (gigabytes for RDS memory and disk), or no series for an empty content
ExpectedSeries(entry, key) ==
    LET content == [Datapoints |-> CloudWatchContent(entry.id, key)] IN
    IF content.Datapoints = <<>> THEN None
    ELSE IF entry.service_type = "RDS" /\ key \in {"memory", "disk"}
         THEN process_metric_data(convert_bytes_to_gb(content))
         ELSE process_metric_data(content)

\* C9: a failed metric fetch leaves only that metric without data: the
\* resource is still returned, its other metrics are what they are without
\* the failure, other resources are untouched, and the loop runs to its end.
C9_FetchFailureIsolated ==
    \A i \in 1..Len(provider_log) :
        provider_log[i].describe = "ok" =>
            LET entry == EntryOf(i)
                keys  == FetchKeys(resource_list[i])
            IN  /\ entry # None
                /\ entry.id = ResolveReference(resource_list[i]).instance_id
                /\ \A key \in keys :
                       SeriesOf(entry, key) =
                           IF key \in provider_log[i].failed THEN None
                           ELSE ExpectedSeries(entry, key)
                /\ ("disk" \in DOMAIN entry.metrics /\ entry.service_type = "EC2")
                       => "disk" \in keys /\ entry.metrics.disk = SeriesOf(entry, "disk")

\* C9 witness: the run ended with two resources returned, the first with
\* exactly one failed fetch and its other metrics present, the second with
\* no failure
C9_Witness ==
    /\ upc = "done"
    /\ Len(provider_log) = 2
    /\ provider_log[1].describe = "ok" /\ provider_log[1].failed = {"cpu"}
    /\ provider_log[2].describe = "ok" /\ provider_log[2].failed = {}
    /\ Len(metrics_data) = 2
    /\ "memory" \in DOMAIN metrics_data[1].metrics
    /\ "cpu" \notin DOMAIN metrics_data[1].metrics
    /\ "cpu" \in DOMAIN metrics_data[2].metrics

\* the number of i in 1..Len(q) with P(q[i])
CountWhere(q, P(_)) == Cardinality({i \in 1..Len(q) : P(q[i])})

IsSupportedReference(parts) ==
    /\ Len(parts) = 3
    /\ parts[1] \in {"EC2", "RDS"}

\* C10: every resource reference retained after truncation appears as
\* exactly one row of its service type's summary table and has exactly one
\* resource page with its identity, whatever happened while its details and
\* metrics were fetched.  (Counted per reference: k references to one
\* instance give k rows and k pages.)
C10_EveryReferenceRendered ==
    (upc = "done" /\ document # None /\ document # Raised) =>
        \A i \in 1..Len(resource_list) :
            LET parts == resource_list[i] IN
            IsSupportedReference(parts) =>
                LET k == CountWhere(resource_list,
                             LAMBDA q : ResolveReference(q) = ResolveReference(parts))
                    table == Get(document.summary, parts[1], <<>>)
                IN  /\ CountWhere(table, LAMBDA row : row[1] = parts[2]) = k
                    /\ CountWhere(document.pages,
                                  LAMBDA pg : pg.info[1] = parts[2]) = k

\* the list generate_comprehensive_report passes to get_instance_metrics
FetchArgument == CapHandler(request.resources, request.frequency)

\* the references the loop of get_instance_metrics has handled, in order
HandledReferences == [i \in 1..Len(provider_log) |-> provider_log[i].resource]

\* C11: for a weekly (7-day) call of get_instance_metrics with a list of
\* length N greater than the cap, exactly cap resources are handled and
\* they are the first cap entries of the list in their original order; for
\* a daily (1-day) call no resource is dropped.
C11_WeeklyCapKeepsPrefix ==
    (upc \in {"fetch", "done"} /\ request.resources # <<>>) =>
        LET N == Len(FetchArgument)
            kept == IF period_days = 7 /\ N > 5
                    THEN SubSeq(FetchArgument, 1, 5) ELSE FetchArgument
        IN  /\ resource_list = kept
            /\ period_days = 1 => Len(resource_list) = N
            /\ upc = "done" => HandledReferences = kept

\* C11 witness: a weekly request for more resources than the cap has been
\* served, and so has a daily one
C11_Witness ==
    /\ upc = "done"
    /\ period_days = 7
    /\ Len(FetchArgument) > 5
    /\ Len(provider_log) = 5
    /\ \E i, j \in 1..5 : provider_log[i].resource # provider_log[j].resource

\* C25: in a weekly request every resource the handler keeps after its own
\* truncation is processed by the fetch stage: the two caps keep the same
\* prefix, so the count the handler reports is the count for which metrics
\* are fetched.
C25_HandlerAndFetchCapsAgree ==
    (upc = "done" /\ request.resources # <<>> /\ request.frequency = "weekly") =>
        /\ HandledReferences = FetchArgument
        /\ Len(provider_log) = Len(FetchArgument)

\* C13: a single-part reference is resolved without raising: an id starting
\* with 'i-' to EC2, any other id to RDS, with the whole string as id and
\* region 'us-east-1', and the resource is then processed like the
\* well-formed reference "type|id|us-east-1".
C13_SinglePartResolved ==
    \A i \in 1..Len(provider_log) :
        LET parts == provider_log[i].resource IN
        Len(parts) = 1 =>
            LET id    == parts[1]
                type  == IF StartsWithIDash(id) THEN "EC2" ELSE "RDS"
                same  == LoopBody(<<type, id, "us-east-1">>,
                                  provider_log[i].describe, provider_log[i].failed)
                entry == EntryOf(i)
            IN  /\ provider_log[i].describe # "none"
                /\ entry = (IF same = <<>> THEN None ELSE same[1])
                /\ provider_log[i].describe = "ok" =>
                       /\ entry # None
                       /\ entry.id = id
                       /\ entry.service_type = type
                       /\ entry.region = "us-east-1"

\* C13 witness: a request of an EC2-looking and of another bare id has
\* been served with an entry for each
C13_Witness ==
    /\ upc = "done"
    /\ \E i, j \in 1..Len(provider_log) :
           /\ provider_log[i].resource = <<"i-stop">>
           /\ EntryOf(i) # None /\ EntryOf(i).service_type = "EC2"
           /\ provider_log[j].resource = <<"db-stop">>
           /\ EntryOf(j) # None /\ EntryOf(j).service_type = "RDS"

\* a reference that is neither "type|id|region" nor a bare id
IsMalformed(parts) == Len(parts) \notin {1, 3}

\* C14: a utilization request that contains a malformed resource reference
\* is answered with a request-level failure: no report document is returned.
C14_MalformedReferenceFailsRequest ==
    (upc = "done" /\ \E i \in 1..Len(request.resources) :
                         IsMalformed(request.resources[i])) =>
        /\ ~http_response.success
        /\ "pdf" \notin DOMAIN http_response

(***************************************************************************)
(* SpecRender: one call of generate_pdf_report for a utilization report,   *)
(* on a list of one or two resources as get_instance_metrics returns them  *)
(* (every subset of the metrics of each kind of resource, CPU averages on  *)
(* and around the remark thresholds), each create_chart call rendering,    *)
(* falling back to the error picture, or returning nothing.                *)
(***************************************************************************)
\* the series process_metric_data returns for one datapoint
OnePointSeries(value) ==
    [timestamps |-> <<1>>, values |-> <<value>>,
     average |-> value, min |-> value, max |-> value]

\* 14.5, 15, 50, 85, 85.5
CpuAverages == {Normalize(29, -1), Lit(15), Lit(50), Lit(85), Normalize(171, -1)}

\* the 'metrics' dict get_instance_metrics builds (aws_utils.py 403-425,
\* 438-456): cpu, memory, the drives' series under disk_metrics, and disk
MetricsOf(cpu, memory, drives, disk) ==
    LET m1 == IF cpu # None THEN Put(EmptyDict, "cpu", OnePointSeries(cpu)) ELSE EmptyDict
        m2 == IF memory # None THEN Put(m1, "memory", OnePointSeries(memory)) ELSE m1
        m3 == IF drives # {}
              THEN Put(m2, "disk_metrics", [k \in drives |-> OnePointSeries(Lit(40))])
              ELSE m2
    IN  IF disk # None THEN Put(m3, "disk", OnePointSeries(disk)) ELSE m3

Ec2Entry(id, name, type, state, os, metrics) ==
    [id |-> id, name |-> name, type |-> type, state |-> state, os |-> os,
     region |-> "us-east-1", service_type |-> "EC2", metrics |-> metrics]

RdsEntry(id, state, metrics) ==
    [id |-> id, name |-> id, type |-> "db.t3.micro", state |-> state,
     engine |-> "mysql", region |-> "us-east-1", service_type |-> "RDS",
     metrics |-> metrics]

\* a Linux instance's root disk is stored under disk_metrics and under disk
LinuxMetrics ==
    {MetricsOf(c, m, IF d THEN {"disk"} ELSE {}, IF d THEN Lit(40) ELSE None) :
        c \in CpuAverages \cup {None}, m \in {None, Lit(60)}, d \in BOOLEAN}

WindowsMetrics ==
    {MetricsOf(c, None, drives, None) :
        c \in {None, Lit(50)},
        drives \in {{}, {"disk C"}, {"disk C", "disk D"}, {"disk E"}}}

\* memory and disk in gigabytes: 2 GB of freeable memory, 20 GB or 2048 GB
\* of free storage
RdsMetrics ==
    {MetricsOf(c, m, {}, d) :
        c \in {None, Lit(50)}, m \in {None, Lit(2)},
        d \in {None, Lit(20), Lit(2048)}}

RenderResources ==
    {Ec2Entry("i-lin", "web", "t3.micro", "running", "Linux", m) : m \in LinuxMetrics}
    \cup {Ec2Entry("i-win", "i-win", "t3.large", "running", "windows", m) :
             m \in WindowsMetrics}
    \cup {RdsEntry("db-1", "available", m) : m \in RdsMetrics}
    \cup {Ec2Entry("i-stop", "i-stop", "t2.small", "stopped", "Linux", EmptyDict),
          Ec2Entry("i-stop", "i-stop", "t2.small", "stopped", "Linux",
                   MetricsOf(Lit(50), Lit(60), {"disk"}, Lit(40))),
          RdsEntry("db-stop", "stopped", MetricsOf(Lit(50), Lit(2), {}, Lit(20)))}

\* the resource that shares the document with the resource looked at
Companions ==
    {Ec2Entry("i-lin", "web", "t3.micro", "running", "Linux",
              MetricsOf(Lit(50), None, {}, None)),
     RdsEntry("db-1", "available", MetricsOf(None, None, {}, Lit(20)))}

RenderInputs ==
    {<<r>> : r \in RenderResources}
    \cup {<<r, c>> : r \in RenderResources, c \in Companions}
    \cup {<<c, r>> : r \in RenderResources, c \in Companions}

RenderInit ==
    /\ metrics_data \in RenderInputs
    /\ resource_list = <<>>
    /\ period_days = 1
    /\ idx = 0
    /\ provider_log = <<>>
    /\ document = None
    /\ chart_log = <<>>
    /\ upc = "render"
    /\ NormalizeIdle
    /\ BillingIdle
    /\ DiscoverIdle
    /\ SessionIdle

\* report_generator.py 872-906, generate_pdf_report(report_type='utilization')
GeneratePdfReport ==
    /\ upc = "render"
    /\ \E charts \in ChartLogs(metrics_data, 1) :
          /\ chart_log' = charts
          /\ document' = create_utilization_report(metrics_data, charts)
    /\ upc' = "done"
    /\ UNCHANGED <<resource_list, period_days, idx, metrics_data, provider_log,
                   normalizeVars, billingVars, discoverVars, sessionVars>>

RenderNext == GeneratePdfReport

SpecRender == RenderInit /\ [][RenderNext]_vars

\* --- properties of the assembled document --------------------------------
Assembled == upc = "done" /\ document # None /\ document # Raised

\* value > n and value < n for a float value and an integer n, by integers
Exceeds(value, n) ==
    IF value.e >= 0 THEN value.m * Pow2(value.e) > n
    ELSE value.m > n * Pow2(-value.e)

Below(value, n) ==
    IF value.e >= 0 THEN value.m * Pow2(value.e) < n
    ELSE value.m < n * Pow2(-value.e)

HasCpuSection(resource) ==
    /\ resource.state # "stopped"
    /\ "cpu" \in DOMAIN resource.metrics
    /\ resource.metrics["cpu"].timestamps # <<>>

CpuRemarks ==
    [high   |-> "Average utilisation is high. Explore possibility of optimising the resources.",
     low    |-> "Average utilisation is low. No action needed at the time.",
     normal |-> "Average utilisation is normal. No action needed at the time."]

\* C12: the CPU remark is 'high' exactly when the CPU average is strictly
\* greater than 85, 'low' exactly when it is strictly less than 15 and
\* 'normal' otherwise (85 itself is not high, 15 itself is not low), and
\* each CPU section carries exactly one of the three remarks.
C12_CpuRemarkThresholds ==
    Assembled =>
        \A i \in 1..Len(metrics_data) :
            HasCpuSection(metrics_data[i]) =>
                LET body == document.pages[i].body
                    avg  == metrics_data[i].metrics["cpu"].average
                    text == body[2].text
                IN  /\ body[1] = [kind |-> "label", text |-> "CPU UTILIZATION"]
                    /\ body[2].kind = "remark"
                    /\ (text = CpuRemarks.high) <=> Exceeds(avg, 85)
                    /\ (text = CpuRemarks.low) <=> Below(avg, 15)
                    /\ (text = CpuRemarks.normal) <=>
                           (~Exceeds(avg, 85) /\ ~Below(avg, 15))
                    /\ Cardinality({j \in 1..4 :
                           /\ body[j].kind = "remark"
                           /\ body[j].text \in {CpuRemarks.high, CpuRemarks.low,
                                                CpuRemarks.normal}}) = 1

\* C12 witness: a document with the CPU section of an average of exactly
\* 85, remarked as normal
C12_Witness ==
    /\ Assembled
    /\ HasCpuSection(metrics_data[1])
    /\ metrics_data[1].metrics["cpu"].average = Normalize(85, 0)
    /\ document.pages[1].body[2].text = CpuRemarks.normal

SectionTitles ==
    {"CPU UTILIZATION", "MEMORY UTILIZATION", "DISK UTILIZATION",
     "DISK C FREE PERCENTAGE", "DISK D FREE PERCENTAGE", "DISK E FREE PERCENTAGE"}

TitlesOf(body) ==
    LET labels == SelectSeq(body, LAMBDA el : el.kind = "label")
    IN  [j \in 1..Len(labels) |-> labels[j].text]

SectionRank(title) ==
    CASE title = "CPU UTILIZATION"    -> 1
      [] title = "MEMORY UTILIZATION" -> 2
      [] OTHER                        -> 3

HasSeries(metrics, key) ==
    key \in DOMAIN metrics /\ metrics[key].timestamps # <<>>

\* the drives of disk_metrics that have a series
DrivesWithSeries(metrics) ==
    IF "disk_metrics" \in DOMAIN metrics
    THEN {k \in DOMAIN metrics["disk_metrics"] :
             metrics["disk_metrics"][k].timestamps # <<>>}
    ELSE {}

\* C19: for every non-stopped resource and every subset of {CPU, memory,
\* disk} it has data for, the page holds a section exactly for each metric
\* with a non-empty series (one disk section per drive with data, else the
\* one general disk section) and none for the others, and the sections
\* appear in the order CPU, memory, disk.
C19_SectionsPresentAndOrdered ==
    Assembled =>
        \A i \in 1..Len(metrics_data) :
            metrics_data[i].state # "stopped" =>
                LET metrics == metrics_data[i].metrics
                    titles  == TitlesOf(document.pages[i].body)
                    count(rank) ==
                        Cardinality({j \in 1..Len(titles) : SectionRank(titles[j]) = rank})
                    drives  == DrivesWithSeries(metrics)
                IN  /\ \A j \in 1..Len(titles) : titles[j] \in SectionTitles
                    /\ count(1) = (IF HasSeries(metrics, "cpu") THEN 1 ELSE 0)
                    /\ count(2) = (IF HasSeries(metrics, "memory") THEN 1 ELSE 0)
                    /\ count(3) = (IF drives # {} THEN Cardinality(drives)
                                   ELSE IF HasSeries(metrics, "disk") THEN 1 ELSE 0)
                    /\ \A j \in 1..(Len(titles) - 1) :
                           SectionRank(titles[j]) <= SectionRank(titles[j + 1])

\* C19 witness: next to another resource's page, a page with the memory
\* and the disk section but no CPU section, for a resource without CPU data
C19_Witness ==
    /\ Assembled
    /\ Len(metrics_data) = 2
    /\ \E i \in 1..2 :
           /\ "cpu" \notin DOMAIN metrics_data[i].metrics
           /\ TitlesOf(document.pages[i].body) =
                  <<"MEMORY UTILIZATION", "DISK UTILIZATION">>

\* the pictures and the notices that stand for a chart on a page
IsChartSlot(el) ==
    \/ el.kind = "image"
    \/ el.kind = "remark" /\ el.text \in {"CPU chart could not be generated",
                                          "Memory chart could not be generated",
                                          "Disk chart could not be generated"}

\* C20: a chart-rendering failure in any metric section of any resource is
\* isolated to that section: no exception leaves the assembly, the error
\* picture or a notice takes the place of the chart, and every section of
\* every resource is still in the document.
C20_ChartFailureIsolated ==
    upc = "done" =>
        /\ document # Raised
        /\ \A i \in 1..Len(metrics_data) :
               LET body == document.pages[i].body IN
               /\ Cardinality({j \in 1..Len(body) : IsChartSlot(body[j])})
                      = Cardinality(DOMAIN chart_log[i])
               /\ \A j \in 1..Len(body) :
                      body[j].kind = "image" => Len(body[j].png) > 0

\* how often a title occurs among the section titles of a page
Occurrences(titles, title) ==
    Cardinality({j \in 1..Len(titles) : titles[j] = title})

\* C27: each disk series of a resource is rendered in exactly one section of
\* its page: when a section of disk_metrics is rendered the general 'disk'
\* section is not, so the root disk of a Linux instance (stored under
\* disk_metrics['disk'] and under 'disk') appears once, and each Windows
\* drive C, D, E with data appears once under its own title.
C27_DiskSeriesRenderedOnce ==
    Assembled =>
        \A i \in 1..Len(metrics_data) :
            metrics_data[i].state # "stopped" =>
                LET metrics == metrics_data[i].metrics
                    titles  == TitlesOf(document.pages[i].body)
                    drives  == DrivesWithSeries(metrics)
                    own(k)  == CASE k = "disk C" -> "DISK C FREE PERCENTAGE"
                                 [] k = "disk D" -> "DISK D FREE PERCENTAGE"
                                 [] k = "disk E" -> "DISK E FREE PERCENTAGE"
                                 [] k = "disk"   -> "DISK UTILIZATION"
                IN  /\ \A k \in drives : Occurrences(titles, own(k)) = 1
                    /\ drives # {} =>
                           Cardinality({j \in 1..Len(titles) :
                                           SectionRank(titles[j]) = 3})
                               = Cardinality(drives)
                    /\ Occurrences(titles, "DISK UTILIZATION") <= 1

\* C27 witness: a Linux page whose root disk is stored under both keys and
\* shown in one section
C27_Witness ==
    /\ Assembled
    /\ \E i \in 1..Len(metrics_data) :
           LET metrics == metrics_data[i].metrics IN
           /\ metrics_data[i].state # "stopped"
           /\ HasSeries(metrics, "disk")
           /\ DrivesWithSeries(metrics) = {"disk"}
           /\ Occurrences(TitlesOf(document.pages[i].body), "DISK UTILIZATION") = 1

\* C24: for an RDS resource the memory and disk average shown in the
\* average table, and compared with 1 GB (memory) and 5 GB (storage) for the
\* low-availability remark, is the average of the gigabyte series the fetch
\* stage produced: the render stage divides no second time, also for
\* averages above 1000 GB.
C24_GigabytesDividedOnce ==
    Assembled =>
        \A i \in 1..Len(metrics_data) :
            LET body == document.pages[i].body IN
            \A j \in 1..Len(body) :
                (/\ metrics_data[i].service_type = "RDS"
                 /\ body[j].kind = "label"
                 /\ body[j].text \in {"MEMORY UTILIZATION", "DISK UTILIZATION"}) =>
                    LET memory == body[j].text = "MEMORY UTILIZATION"
                        avg == metrics_data[i].metrics[
                                   IF memory THEN "memory" ELSE "disk"].average
                        low == IF memory
                               THEN "Memory availability is low. Consider upgrading the instance."
                               ELSE "Storage availability is low. Consider increasing storage."
                    IN  /\ body[j + 2] = AverageTable(avg, "GB")
                        /\ body[j + 1].text = low
                               <=> Below(avg, IF memory THEN 1 ELSE 5)

\* the figures of a page: position j holds a rendered figure, three places
\* after the title of its section
IsFigure(body, j) ==
    j > 3 /\ body[j].kind = "image" /\ Len(body[j].png) = 2

\* C21: every chart the assembler requests shows the stats line and the
\* Y-axis label with '%' when the series is a percentage (CPU of any service
\* type, EC2 memory, EC2 disk), and without '%', in GB, exactly when the
\* series is a capacity (RDS memory, RDS disk).
C21_ChartUnitFollowsSeries ==
    Assembled =>
        \A i \in 1..Len(metrics_data) :
            LET body == document.pages[i].body IN
            \A j \in 1..Len(body) :
                IsFigure(body, j) =>
                    LET capacity ==
                            /\ metrics_data[i].service_type = "RDS"
                            /\ body[j - 3].text # "CPU UTILIZATION"
                    IN  IF capacity
                        THEN /\ body[j].png[2] = ""
                             /\ body[j].png[1] \in {"Available Memory (GB)",
                                                     "Available Storage (GB)"}
                        ELSE /\ body[j].png[2] = "%"
                             /\ body[j].png[1] \notin {"Available Memory (GB)",
                                                        "Available Storage (GB)"}

(***************************************************************************)
(* SpecChart: one create_chart call on a series as get_cloudwatch_metric_  *)
(* data fetches it.  A datetime is the number of minutes since 00:00 of    *)
(* the day of the first datapoint.  The fetch asks for the datapoints of   *)
(* the last period_days days, one per 900 s (daily) or 10800 s (weekly):   *)
(* the first datapoint is at any time of day, the next ones follow at the  *)
(* period, and the last is less than the window after the first.           *)
(***************************************************************************)
\* aws_utils.py line 120, in minutes
Period(days) == IF days > 1 THEN 180 ELSE 15

\* the minute of the hour of the first datapoint
StartMinutes == {0, 15, 30, 45}

\* aws_utils.py lines 115-152: the timestamps of a fetched series, sorted
ChartSeries(days) ==
    {[k \in 1..n |-> (h * 60 + m) + (k - 1) * Period(days)] :
        h \in 0..23, m \in StartMinutes,
        n \in 1..((days * 24 * 60) \div Period(days))}

\* report_generator.py lines 55-120: the limits of the time axis, or <<>>
\* when the limits are left to the plotting library (a single point)
XLimits(timestamps, days) ==
    IF Len(timestamps) > 1
    THEN LET start_time == timestamps[1]
             midnight   == (start_time \div (24 * 60)) * (24 * 60)
         IN  IF days = 1
             THEN LET start_hour == (start_time \div 60) % 24
                      rounded_start_hour == (start_hour \div 3) * 3
                      replaced == midnight + rounded_start_hour * 60 + 30
                      clean_start == IF replaced > start_time
                                     THEN replaced - 3 * 60 ELSE replaced
                      clean_end == clean_start + 24 * 60
                  IN  <<clean_start, clean_end>>
             ELSE LET date_ticks == [i \in 1..7 |->
                                        midnight + (i - 1) * 24 * 60 + 12 * 60]
                  IN  <<date_ticks[1] - 12 * 60, date_ticks[7] + 12 * 60>>
    ELSE <<>>

ChartInit ==
    /\ \E days \in {1, 7} :
          \E ts \in ChartSeries(days) :
             chart_call = [timestamps |-> ts, period_days |-> days,
                           xlim |-> <<>>, returned |-> FALSE]
    /\ wizard = None
    /\ cleanup_service = None
    /\ NormalizeIdle
    /\ MetricsIdle
    /\ BillingIdle
    /\ DiscoverIdle

CreateChart ==
    /\ chart_call # None
    /\ ~chart_call.returned
    /\ chart_call' = [chart_call EXCEPT
                         !.xlim = XLimits(chart_call.timestamps, chart_call.period_days),
                         !.returned = TRUE]
    /\ UNCHANGED <<normalizeVars, metricsVars, billingVars, discoverVars,
                   wizard, cleanup_service>>

SpecChart == ChartInit /\ [][CreateChart]_vars

\* C26: for every series covering at most the requested window (24 hours
\* daily, 7 days weekly) and starting at any time of day, the x-axis limits
\* create_chart sets contain every timestamp of the series, in the daily
\* branch and in the weekly branch.
C26_LimitsContainSeries ==
    (chart_call.returned /\ chart_call.xlim # <<>>) =>
        \A k \in 1..Len(chart_call.timestamps) :
            /\ chart_call.xlim[1] <= chart_call.timestamps[k]
            /\ chart_call.timestamps[k] <= chart_call.xlim[2]

(***************************************************************************)
(* SpecWizard: the report wizard page of app.py (the script of lines       *)
(* 1375-2060).  wizard holds the script's variables, the part of the DOM   *)
(* the script reads back (the options of the client dropdown, the rows of  *)
(* the resource tables with their checkboxes, the select-all boxes, which  *)
(* buttons are hidden), the fetches in flight and the setTimeout callbacks *)
(* pending.  A user clicks only what is shown: the content of the current  *)
(* step, and the Back / Next / Download buttons when not hidden.  A        *)
(* checkbox value 'type|id|region' is the tuple of its parts.  The user    *)
(* starts no fetch while MaxFetches fetches are in flight.                 *)
(***************************************************************************)
MaxFetches == 1

Providers == {"AWS", "Azure"}

Clients == {"acme", "globex"}

\* what /api/discover-resources answers for a provider and a client
\* (app.py 2296-2325): the client's instances for AWS, nothing for Azure
Discovered(provider, client) ==
    IF provider # "AWS" THEN {}
    ELSE IF client = "acme"
         THEN {<<"EC2", "i-acme", "us-east-1">>}
         ELSE {<<"RDS", "db-globex", "us-east-1">>}

\* the rows of the table 'ec2' / 'rds'
RowsOf(type, rows) ==
    {v \in rows : v[1] = (IF type = "ec2" THEN "EC2" ELSE "RDS")}

WizardInit ==
    /\ wizard = [currentStep |-> 1, selectedProvider |-> "", selectedClient |-> "",
                 selectedReportType |-> "", selectedResources |-> {},
                 selectedFrequency |-> "",
                 options |-> {}, tables |-> {}, rows |-> {}, checked |-> {},
                 selectAll |-> {}, nextHidden |-> TRUE, downloadHidden |-> TRUE,
                 fetches |-> {}, timeouts |-> {}]
    /\ chart_call = None
    /\ cleanup_service = None
    /\ NormalizeIdle
    /\ MetricsIdle
    /\ BillingIdle
    /\ DiscoverIdle

\* lines 1404-1441; month-select and year-select always have a value
updateNavigationButtons(w) ==
    LET showNext ==
            \/ w.currentStep = 1 /\ w.selectedProvider # ""
            \/ w.currentStep = 2 /\ w.selectedClient # ""
            \/ w.currentStep = 3 /\ w.selectedReportType # ""
            \/ w.currentStep = 4 /\ w.selectedReportType = "utilization"
                                 /\ w.selectedResources # {}
            \/ w.currentStep = 4 /\ w.selectedReportType = "billing"
    IN  [w EXCEPT !.nextHidden = ~showNext]

\* lines 1917-1926: the values of the checked checkboxes that contain '|'
updateSelectedResources(w) ==
    updateNavigationButtons([w EXCEPT !.selectedResources = w.checked])

\* lines 1870-1906, for the tables of types: the rows are replaced by
\* unchecked rows of the resources and the table is shown
displayResources(w, types, resources) ==
    LET old == UNION {RowsOf(t, w.rows) : t \in types}
        new == UNION {RowsOf(t, resources) : t \in types}
    IN  [w EXCEPT !.rows = (w.rows \ old) \cup new,
                  !.checked = w.checked \ old,
                  !.tables = w.tables \cup types]

\* the script's variables and DOM change, nothing else does
WizardStep(w) ==
    /\ wizard' = w
    /\ UNCHANGED <<normalizeVars, metricsVars, billingVars, discoverVars,
                   chart_call, cleanup_service>>

\* lines 1551-1568
SelectProvider ==
    /\ wizard # None
    /\ wizard.currentStep = 1
    /\ \E provider \in Providers :
          WizardStep(updateNavigationButtons(
              [wizard EXCEPT !.selectedProvider = provider]))

\* lines 1670-1693: the buttons are updated 200 ms later
SelectClient ==
    /\ wizard # None
    /\ wizard.currentStep = 2
    /\ \E clientValue \in wizard.options :
          WizardStep([wizard EXCEPT !.selectedClient = clientValue,
                                    !.timeouts = @ \cup {"selectClient"}])

\* lines 1721-1738
SelectReportType ==
    /\ wizard # None
    /\ wizard.currentStep = 3
    /\ \E type \in {"utilization", "billing"} :
          WizardStep(updateNavigationButtons(
              [wizard EXCEPT !.selectedReportType = type]))

\* a fetch of /api/discover-resources, started with the provider and the
\* client selected at that moment (lines 1770-1777, 1832-1840)
DiscoverFetch(w, types) ==
    [api |-> "discover", cloudProvider |-> w.selectedProvider,
     clientName |-> w.selectedClient, types |-> types]

\* lines 1468-1512
GoNext ==
    /\ wizard # None
    /\ ~wizard.nextHidden
    /\ wizard.currentStep \in {1, 3} => Cardinality(wizard.fetches) < MaxFetches
    /\ LET w == wizard IN
       IF w.currentStep = 1 /\ w.selectedProvider # ""
       THEN WizardStep(updateNavigationButtons(
                [w EXCEPT !.currentStep = 2,
                          !.fetches = @ \cup {[api |-> "clients"]}]))
       ELSE IF w.currentStep = 2 /\ w.selectedClient # ""
       THEN WizardStep(updateNavigationButtons([w EXCEPT !.currentStep = 3]))
       ELSE IF w.currentStep = 3 /\ w.selectedReportType # ""
       THEN WizardStep(updateNavigationButtons(
                [w EXCEPT !.currentStep = 4,
                          !.fetches =
                              IF w.selectedReportType = "utilization"
                              THEN @ \cup {DiscoverFetch(w, {"ec2", "rds"})}
                              ELSE @]))
       ELSE IF w.currentStep = 4
               /\ \/ w.selectedReportType = "utilization" /\ w.selectedResources # {}
                  \/ w.selectedReportType = "billing"
       THEN WizardStep(updateNavigationButtons([w EXCEPT !.currentStep = 5]))
       ELSE WizardStep(w)

\* lines 1443-1466
GoBack ==
    /\ wizard # None
    /\ wizard.currentStep > 1
    /\ WizardStep(updateNavigationButtons(
           [wizard EXCEPT !.currentStep = wizard.currentStep - 1]))

\* lines 1822-1868: a click on 'Scan EC2 Instances' / 'Scan RDS Instances'
ScanResources ==
    /\ wizard # None
    /\ wizard.currentStep = 4
    /\ wizard.selectedReportType = "utilization"
    /\ Cardinality(wizard.fetches) < MaxFetches
    /\ \E type \in {"ec2", "rds"} :
          WizardStep([wizard EXCEPT !.fetches = @ \cup {DiscoverFetch(wizard, {type})}])

\* a fetch completes (lines 1576-1603, 1778-1818, 1842-1866, 2016-2058):
\* with success the dropdown is populated resp. the tables are replaced
\* resp. the file is saved, otherwise only texts change
FetchCompletes ==
    /\ wizard # None
    /\ \E f \in wizard.fetches : \E success \in BOOLEAN :
          LET w == [wizard EXCEPT !.fetches = @ \ {f}] IN
          IF ~success \/ f.api = "generate-report" THEN WizardStep(w)
          ELSE IF f.api = "clients"
               THEN WizardStep([w EXCEPT !.options = Clients])
               ELSE WizardStep(displayResources(
                        w, f.types, Discovered(f.cloudProvider, f.clientName)))

\* lines 1878-1890: a click on a row or on its checkbox
ToggleRow ==
    /\ wizard # None
    /\ wizard.currentStep = 4
    /\ wizard.selectedReportType = "utilization"
    /\ \E v \in wizard.rows :
          WizardStep(updateSelectedResources(
              [wizard EXCEPT !.checked = IF v \in @ THEN @ \ {v} ELSE @ \cup {v}]))

\* lines 1928-1963: the boxes of the table follow the select-all box at
\* once, selectedResources after the animations
ToggleSelectAll ==
    /\ wizard # None
    /\ wizard.currentStep = 4
    /\ wizard.selectedReportType = "utilization"
    /\ \E type \in wizard.tables :
          LET on == type \notin wizard.selectAll IN
          WizardStep([wizard EXCEPT
              !.selectAll = IF on THEN @ \cup {type} ELSE @ \ {type},
              !.checked = IF on THEN @ \cup RowsOf(type, wizard.rows)
                          ELSE @ \ RowsOf(type, wizard.rows),
              !.timeouts = @ \cup {"toggleSelectAll"}])

\* a setTimeout callback runs: lines 1689-1692 and 1960-1962
Timeout ==
    /\ wizard # None
    /\ \E t \in wizard.timeouts :
          LET w == [wizard EXCEPT !.timeouts = @ \ {t}] IN
          IF t = "selectClient"
          THEN WizardStep(updateNavigationButtons(w))
          ELSE WizardStep(updateSelectedResources(w))

\* lines 1969-1989
SelectFrequency ==
    /\ wizard # None
    /\ wizard.currentStep = 5
    /\ wizard.selectedReportType = "utilization"
    /\ \E frequency \in {"daily", "weekly"} :
          WizardStep([wizard EXCEPT !.selectedFrequency = frequency,
                                    !.downloadHidden = FALSE,
                                    !.nextHidden = TRUE])

\* lines 1991-2014: the request sent to /api/generate-report
DownloadUtilizationReport ==
    /\ wizard # None
    /\ wizard.currentStep = 5
    /\ wizard.selectedReportType = "utilization"
    /\ ~wizard.downloadHidden
    /\ Cardinality(wizard.fetches) < MaxFetches
    /\ WizardStep([wizard EXCEPT !.fetches = @ \cup
           {[api           |-> "generate-report",
             cloudProvider |-> wizard.selectedProvider,
             clientName    |-> wizard.selectedClient,
             reportType    |-> "utilization",
             resources     |-> wizard.selectedResources,
             frequency     |-> wizard.selectedFrequency]}])

WizardNext ==
    \/ SelectProvider
    \/ SelectClient
    \/ SelectReportType
    \/ GoNext
    \/ GoBack
    \/ ScanResources
    \/ FetchCompletes
    \/ ToggleRow
    \/ ToggleSelectAll
    \/ Timeout
    \/ SelectFrequency
    \/ DownloadUtilizationReport

SpecWizard == WizardInit /\ [][WizardNext]_vars

\* C28: whenever the wizard submits a utilization request, every entry of
\* selectedResources is a resource discovered for the provider and the
\* client it is submitted for: a selection made under a previously selected
\* client or provider is never submitted under the new one.
C28_SubmittedResourcesBelongToClient ==
    wizard # None =>
        \A f \in wizard.fetches :
            f.api = "generate-report" =>
                f.resources \subseteq Discovered(f.cloudProvider, f.clientName)

\* C29: step 5 of the utilization path is only occupied with a non-empty
\* selectedResources, so every utilization request sent carries at least
\* one resource and a chosen frequency, under every interleaving of the
\* clicks with the delayed callback of toggleSelectAll.
C29_StepFiveHasResources ==
    wizard # None =>
        /\ (wizard.currentStep = 5 /\ wizard.selectedReportType = "utilization")
               => wizard.selectedResources # {}
        /\ \A f \in wizard.fetches :
               f.api = "generate-report" =>
                   f.resources # {} /\ f.frequency # ""

(***************************************************************************)
(* SpecCleanup: the CleanupService instance of cleanup_service.py while    *)
(* the server handles report requests.  Time passes in minutes.            *)
(* cleanup_service holds current_timer (absent, waiting with the minutes   *)
(* left, or fired), the positions of the _perform_cleanup                  *)
(* executions in progress (the five clean-up calls, 1..5), the status of   *)
(* the last report request, and owed: a report was generated and no        *)
(* execution of _perform_cleanup has started since.                        *)
(***************************************************************************)
CleanupDelayMinutes == 5

CleanupInit ==
    /\ cleanup_service = [current_timer |-> [state |-> "absent", minutes |-> 0],
                          executions |-> {}, last_status |-> 0, owed |-> FALSE]
    /\ chart_call = None
    /\ wizard = None
    /\ NormalizeIdle
    /\ MetricsIdle
    /\ BillingIdle
    /\ DiscoverIdle

\* only the cleanup service changes
CleanupStep(c) ==
    /\ cleanup_service' = c
    /\ UNCHANGED <<normalizeVars, metricsVars, billingVars, discoverVars,
                   chart_call, wizard>>

\* lines 20-36: cancel() stops a timer that is still waiting and does
\* nothing to one that has fired; the new timer replaces it
schedule_cleanup(c, delay_minutes) ==
    [c EXCEPT !.current_timer = [state |-> "waiting", minutes |-> delay_minutes]]

\* app.py 2338-2444: a report request; the cleanup is scheduled when the
\* report was generated (2430-2431), not when the handler answers 400 / 500
GenerateReport ==
    /\ cleanup_service # None
    /\ \E status \in {200, 400, 500} :
          IF status = 200
          THEN CleanupStep([schedule_cleanup(cleanup_service, CleanupDelayMinutes)
                               EXCEPT !.last_status = status, !.owed = TRUE])
          ELSE CleanupStep([cleanup_service EXCEPT !.last_status = status])

\* a minute passes for the waiting timer
Tick ==
    /\ cleanup_service # None
    /\ cleanup_service.current_timer.state = "waiting"
    /\ cleanup_service.current_timer.minutes > 0
    /\ CleanupStep([cleanup_service EXCEPT !.current_timer.minutes = @ - 1])

\* threading.Timer: the delay has elapsed, the timer's thread calls
\* _perform_cleanup
TimerFires ==
    /\ cleanup_service # None
    /\ cleanup_service.current_timer.state = "waiting"
    /\ cleanup_service.current_timer.minutes = 0
    /\ CleanupStep([cleanup_service EXCEPT !.current_timer.state = "fired",
                                           !.executions = @ \cup {1},
                                           !.owed = FALSE])

\* app.py 2518-2531 and lines 148-151: POST /api/force-cleanup
ForceCleanup ==
    /\ cleanup_service # None
    /\ CleanupStep([cleanup_service EXCEPT !.executions = @ \cup {1},
                                           !.owed = FALSE])

\* lines 38-61: an execution of _perform_cleanup makes its next call
PerformCleanup ==
    /\ cleanup_service # None
    /\ \E pc \in cleanup_service.executions :
          CleanupStep([cleanup_service EXCEPT
              !.executions = (@ \ {pc}) \cup (IF pc < 5 THEN {pc + 1} ELSE {})])

CleanupNext ==
    \/ GenerateReport
    \/ Tick
    \/ TimerFires
    \/ ForceCleanup
    \/ PerformCleanup

SpecCleanup == CleanupInit /\ [][CleanupNext]_vars

\* time passes, a timer whose delay has elapsed fires, and a running
\* _perform_cleanup goes on; requests arrive or not
SpecCleanupFair ==
    /\ SpecCleanup
    /\ WF_vars(Tick)
    /\ WF_vars(TimerFires)
    /\ WF_vars(PerformCleanup)

\* C30: every successful report generation is eventually followed by an
\* execution of _perform_cleanup, given that a started timer fires once its
\* delay has elapsed unless cancelled; for every sequence of report
\* requests, also when they keep arriving less than the delay apart.
C30_CleanupFollowsReport ==
    (cleanup_service # None /\ cleanup_service.owed)
        ~> (cleanup_service = None \/ ~cleanup_service.owed)

(***************************************************************************)
(* aws_utils.discover_aws_resources and SpecDiscover: one inventory call.  *)
(* The account is enabled in two regions; us-east-1 holds the instances of *)
(* Ec2Account and RdsAccount, eu-west-1 one more EC2 instance.  Each       *)
(* provider call either fails or answers; a listing call answers with the  *)
(* first page of the region's instances, which is all of them or fewer     *)
(* (the response then carries a continuation token).                       *)
(***************************************************************************)
AccountRegions == <<"us-east-1", "eu-west-1">>

\* line 35
FallbackRegions ==
    <<"us-east-1", "us-east-2", "us-west-1", "us-west-2", "eu-west-1",
      "eu-central-1", "ap-south-1">>

\* no fallback: nothing to enumerate when the region listing fails
get_all_regions_no_fallback(outcome) ==
    IF outcome = "ok" THEN AccountRegions ELSE <<>>

\* lines 26-35
get_all_regions(outcome) ==
    IF outcome = "ok" THEN AccountRegions ELSE FallbackRegions

\* the instances describe_instances has for a region, in the API's order
Ec2Inventory(region) ==
    CASE region = "us-east-1" ->
             <<Put(Ec2Account["i-lin"], "InstanceId", "i-lin"),
               Put(Ec2Account["i-win"], "InstanceId", "i-win"),
               Put(Ec2Account["i-stop"], "InstanceId", "i-stop")>>
      [] region = "eu-west-1" ->
             <<[InstanceId |-> "i-eu", InstanceType |-> "t3.micro",
                State |-> "running",
                Tags |-> <<[Key |-> "team", Value |-> "ops"],
                           [Key |-> "Name", Value |-> "api"]>>]>>
      [] OTHER -> <<>>

\* the instances describe_db_instances has for a region
RdsInventory(region) ==
    CASE region = "us-east-1" ->
             <<Put(RdsAccount["db-1"], "DBInstanceIdentifier", "db-1"),
               Put(RdsAccount["db-stop"], "DBInstanceIdentifier", "db-stop")>>
      [] OTHER -> <<>>

\* what a listing call can do: fail, or return the first n instances
ListingOutcomes(inventory) ==
    {[failed |-> TRUE, page |-> 0]}
    \cup {[failed |-> FALSE, page |-> n] :
             n \in IF inventory = <<>> THEN {0} ELSE 1..Len(inventory)}

\* lines 53-86
list_ec2_instances(region, outcome) ==
    IF outcome.failed THEN <<>>
    ELSE LET response == SubSeq(Ec2Inventory(region), 1, outcome.page) IN
         [i \in 1..Len(response) |->
             LET instance == response[i] IN
             [id    |-> instance.InstanceId,
              name  |-> IF "Tags" \in DOMAIN instance
                        THEN NameFromTags(instance.Tags, 1, "Unnamed")
                        ELSE "Unnamed",
              type  |-> instance.InstanceType,
              os    |-> PlatformOf(instance),
              state |-> instance.State,
              region |-> region,
              service_type |-> "EC2"]]

\* lines 88-110
list_rds_instances(region, outcome) ==
    IF outcome.failed THEN <<>>
    ELSE LET response == SubSeq(RdsInventory(region), 1, outcome.page) IN
         [i \in 1..Len(response) |->
             LET instance == response[i] IN
             [id     |-> instance.DBInstanceIdentifier,
              name   |-> instance.DBInstanceIdentifier,
              type   |-> instance.DBInstanceClass,
              status |-> instance.DBInstanceStatus,
              engine |-> instance.Engine,
              region |-> region,
              service_type |-> "RDS"]]

DiscoverInit ==
    /\ regions = None
    /\ calls_done = 0
    /\ all_resources = <<>>
    /\ listing_log = <<>>
    /\ dpc = "regions"
    /\ NormalizeIdle
    /\ MetricsIdle
    /\ BillingIdle
    /\ SessionIdle

\* lines 39-40
GetAllRegions ==
    /\ dpc = "regions"
    /\ \E outcome \in {"ok", "fail"} :
          /\ regions' = get_all_regions(outcome)
          /\ listing_log' = <<[call |-> "describe_regions", outcome |-> outcome]>>
    /\ dpc' = "listing"
    /\ UNCHANGED <<calls_done, all_resources, normalizeVars, metricsVars, billingVars, sessionVars>>

\* the region the loop of discover_aws_resources is at
CurrentRegion == regions[(calls_done \div 2) + 1]

\* lines 42-45
ListEc2Instances ==
    /\ dpc = "listing"
    /\ calls_done < 2 * Len(regions)
    /\ calls_done % 2 = 0
    /\ \E outcome \in ListingOutcomes(Ec2Inventory(CurrentRegion)) :
          /\ all_resources' = all_resources \o list_ec2_instances(CurrentRegion, outcome)
          /\ listing_log' =
                 Append(listing_log,
                        [call |-> "describe_instances", region |-> CurrentRegion,
                         outcome |-> outcome])
    /\ calls_done' = calls_done + 1
    /\ UNCHANGED <<regions, dpc, normalizeVars, metricsVars, billingVars, sessionVars>>

\* lines 47-49
ListRdsInstances ==
    /\ dpc = "listing"
    /\ calls_done < 2 * Len(regions)
    /\ calls_done % 2 = 1
    /\ \E outcome \in ListingOutcomes(RdsInventory(CurrentRegion)) :
          /\ all_resources' = all_resources \o list_rds_instances(CurrentRegion, outcome)
          /\ listing_log' =
                 Append(listing_log,
                        [call |-> "describe_db_instances", region |-> CurrentRegion,
                         outcome |-> outcome])
    /\ calls_done' = calls_done + 1
    /\ UNCHANGED <<regions, dpc, normalizeVars, metricsVars, billingVars, sessionVars>>

\* line 51
ReturnAllResources ==
    /\ dpc = "listing"
    /\ calls_done = 2 * Len(regions)
    /\ dpc' = "returned"
    /\ UNCHANGED <<regions, calls_done, all_resources, listing_log,
                   normalizeVars, metricsVars, billingVars, sessionVars>>

DiscoverNext ==
    \/ GetAllRegions
    \/ ListEc2Instances
    \/ ListRdsInstances
    \/ ReturnAllResources

SpecDiscover == DiscoverInit /\ [][DiscoverNext]_vars

\* --- properties of the inventory ------------------------------------------

\* the ids of the listing a call returned, none when it failed
AnsweredIds(entry) ==
    IF entry.outcome.failed THEN <<>>
    ELSE IF entry.call = "describe_instances"
         THEN [i \in 1..entry.outcome.page |-> Ec2Inventory(entry.region)[i].InstanceId]
         ELSE [i \in 1..entry.outcome.page |->
                  RdsInventory(entry.region)[i].DBInstanceIdentifier]

RECURSIVE AnsweredFrom(_)
AnsweredFrom(i) ==
    IF i > Len(listing_log) THEN <<>>
    ELSE [j \in 1..Len(AnsweredIds(listing_log[i])) |->
             <<AnsweredIds(listing_log[i])[j], listing_log[i].region,
               IF listing_log[i].call = "describe_instances" THEN "EC2" ELSE "RDS">>]
         \o AnsweredFrom(i + 1)

\* C15: discover_aws_resources never aborts: when the region listing fails
\* the fixed fallback regions are enumerated, and a failed EC2 or RDS
\* listing contributes an empty list while the listings of every other
\* region and service are returned as they were answered.
C15_DiscoveryDegrades ==
    /\ dpc = "listing" /\ calls_done = 2 * Len(regions) => ENABLED ReturnAllResources
    /\ dpc = "returned" =>
        /\ regions = (IF listing_log[1].outcome = "fail"
                      THEN <<"us-east-1", "us-east-2", "us-west-1", "us-west-2",
                             "eu-west-1", "eu-central-1", "ap-south-1">>
                      ELSE AccountRegions)
        /\ Len(listing_log) = 1 + 2 * Len(regions)
        /\ \A r \in 1..Len(regions) :
               /\ listing_log[2 * r].region = regions[r]
               /\ listing_log[2 * r].call = "describe_instances"
               /\ listing_log[2 * r + 1].region = regions[r]
               /\ listing_log[2 * r + 1].call = "describe_db_instances"
        /\ [i \in 1..Len(all_resources) |->
               <<all_resources[i].id, all_resources[i].region,
                 all_resources[i].service_type>>] = AnsweredFrom(2)

\* C15 witness: the region listing failed, the EC2 listing of us-east-1
\* failed, and the databases of us-east-1 and the instance of eu-west-1 are
\* in the returned inventory
C15_Witness ==
    /\ dpc = "returned"
    /\ listing_log[1].outcome = "fail"
    /\ listing_log[2].outcome.failed
    /\ \A i \in 3..Len(listing_log) : ~listing_log[i].outcome.failed
    /\ \E i, j \in 1..Len(all_resources) :
           all_resources[i].id = "db-1" /\ all_resources[j].id = "i-eu"
    /\ \A i \in 1..Len(all_resources) : all_resources[i].id # "i-lin"

\* the (id, region, service type) of every instance of an enumerated region
ExistingInstances ==
    UNION {{<<Ec2Inventory(regions[r])[i].InstanceId, regions[r], "EC2">> :
                i \in 1..Len(Ec2Inventory(regions[r]))}
           \cup {<<RdsInventory(regions[r])[i].DBInstanceIdentifier, regions[r], "RDS">> :
                    i \in 1..Len(RdsInventory(regions[r]))} :
           r \in 1..Len(regions)}

\* C16: when no call fails, every EC2 and every RDS instance of every
\* enumerated region is returned exactly once, tagged with its region and
\* service type, also when a listing comes in more than one page.
C16_DiscoveryComplete ==
    (dpc = "returned" /\ listing_log[1].outcome = "ok"
        /\ \A i \in 2..Len(listing_log) : ~listing_log[i].outcome.failed) =>
        \A x \in ExistingInstances :
            Cardinality({i \in 1..Len(all_resources) :
                <<all_resources[i].id, all_resources[i].region,
                  all_resources[i].service_type>> = x}) = 1

\* the value of an instance's Name tag, or its id
ExpectedName(instance_id, region) ==
    LET inv == Ec2Inventory(region)
        instance == inv[CHOOSE i \in 1..Len(inv) : inv[i].InstanceId = instance_id]
        tags == IF "Tags" \in DOMAIN instance THEN instance.Tags ELSE <<>>
    IN  IF \E t \in 1..Len(tags) : tags[t].Key = "Name"
        THEN tags[CHOOSE t \in 1..Len(tags) : tags[t].Key = "Name"].Value
        ELSE instance_id

\* C17: the name of a compute instance is the value of its Name tag when it
\* has one and its instance id otherwise, in the inventory listing and in
\* the metric fetch.
C17_NameTagElseId ==
    /\ \A i \in 1..Len(all_resources) :
           all_resources[i].service_type = "EC2" =>
               all_resources[i].name =
                   ExpectedName(all_resources[i].id, all_resources[i].region)
    /\ \A i \in 1..Len(metrics_data) :
           metrics_data[i].service_type = "EC2" =>
               metrics_data[i].name =
                   ExpectedName(metrics_data[i].id, metrics_data[i].region)

(***************************************************************************)
(* ssm_utils.get_client_billing_data.  Dates 'YYYY-MM-DD' are modelled by  *)
(* their fields.  Amounts are whole currency units: on these float(...)    *)
(* and the float additions of the source are exact, so they are integers   *)
(* here; credits and refunds are negative amounts.                         *)
(***************************************************************************)
Date(y, m, d) == [year |-> y, month |-> m, day |-> d]

\* calendar.month_name[month], datetime(...).strftime('%B')
MonthName(month) ==
    <<"January", "February", "March", "April", "May", "June", "July",
      "August", "September", "October", "November", "December">>[month]

\* lines 173-177
StartDate(month, year) == Date(year, month, 1)

\* the end date without the roll-over of the year
EndDateSameYear(month, year) == Date(year, month + 1, 1)

EndDate(month, year) ==
    IF month = 12 THEN Date(year + 1, 1, 1) ELSE Date(year, month + 1, 1)

\* line 180
Granularity(frequency) == IF frequency = "daily" THEN "DAILY" ELSE "MONTHLY"

\* lines 193-201: the request sent to Cost Explorer
CostQuery(month, year, frequency) ==
    [TimePeriod  |-> [Start |-> StartDate(month, year), End |-> EndDate(month, year)],
     Granularity |-> Granularity(frequency),
     GroupBy     |-> "SERVICE"]

\* services.sort(key=lambda x: x['amount'], reverse=True): stable, an
\* element goes after every element already placed whose amount is >= its own
RECURSIVE InsertByAmountDesc(_, _)
InsertByAmountDesc(sorted, x) ==
    IF sorted = <<>> THEN <<x>>
    ELSE IF sorted[Len(sorted)].amount >= x.amount
         THEN Append(sorted, x)
         ELSE Append(InsertByAmountDesc(SubSeq(sorted, 1, Len(sorted) - 1), x),
                     sorted[Len(sorted)])

RECURSIVE SortFrom(_, _, _)
SortFrom(services, i, acc) ==
    IF i > Len(services) THEN acc
    ELSE SortFrom(services, i + 1, InsertByAmountDesc(acc, services[i]))

\* an ascending stable sort read backwards: descending, ties reversed
RECURSIVE InsertByAmountAsc(_, _)
InsertByAmountAsc(sorted, x) ==
    IF sorted = <<>> THEN <<x>>
    ELSE IF sorted[Len(sorted)].amount <= x.amount
         THEN Append(sorted, x)
         ELSE Append(InsertByAmountAsc(SubSeq(sorted, 1, Len(sorted) - 1), x),
                     sorted[Len(sorted)])

RECURSIVE SortAscFrom(_, _, _)
SortAscFrom(services, i, acc) ==
    IF i > Len(services) THEN acc
    ELSE SortAscFrom(services, i + 1, InsertByAmountAsc(acc, services[i]))

SortAscendingReversed(services) ==
    LET asc == SortAscFrom(services, 1, <<>>) IN
    [i \in 1..Len(asc) |-> asc[Len(asc) + 1 - i]]

SortByAmountDescending(services) == SortFrom(services, 1, <<>>)

\* lines 207-217: the loop over the groups of the first time bucket
RECURSIVE GroupsLoop(_, _, _)
GroupsLoop(groups, i, acc) ==
    IF i > Len(groups) THEN acc
    ELSE LET service == groups[i].Keys[1]
             amount  == groups[i].Amount
             total   == acc.total_cost + amount
         IN  GroupsLoop(groups, i + 1,
                 [services   |-> IF amount > 0
                                 THEN Append(acc.services,
                                             [service |-> service, amount |-> amount])
                                 ELSE acc.services,
                  total_cost |-> total])

\* lines 165-233.  response is what get_cost_and_usage did: a result, or
\* [error |-> "ClientError"] (caught: the function returns None), or
\* [error |-> e] for any other exception, which the function lets through.
get_client_billing_data(month, year, frequency, response) ==
    IF "error" \in DOMAIN response
    THEN IF response.error = "ClientError" THEN None ELSE Raised
    ELSE LET start_date == StartDate(month, year)
             end_date   == EndDate(month, year)
             acc0 == [services |-> <<>>, total_cost |-> 0]
             acc  == IF Len(response.ResultsByTime) > 0
                     THEN GroupsLoop(response.ResultsByTime[1].Groups, 1, acc0)
                     ELSE acc0
         IN  [services       |-> SortByAmountDescending(acc.services),
              total_cost     |-> acc.total_cost,
              period         |-> <<start_date, "to", end_date>>,
              billing_period |-> <<MonthName(month), year>>,
              start_date     |-> start_date,
              end_date       |-> end_date]

(***************************************************************************)
(* report_generator.create_billing_report: cover title, the information    *)
(* table, the summary sentence and the footer.                             *)
(***************************************************************************)
create_billing_report(account_name, cloud_provider, month, year, data) ==
    [title |-> <<cloud_provider, "BILLING REPORT">>,
     info  |-> [Client |-> account_name,
                ReportType |-> "Billing Report",
                BillingPeriod |-> <<MonthName(month), year>>,
                Currency |-> "USD"],
     body  |-> <<"summary text", "footer">>]

(***************************************************************************)
(* SpecBilling: one billing request, to /api/get-billing-preview or to     *)
(* /api/generate-report with reportType 'billing'.  The request names a    *)
(* month and a year; the provider answers the cost query with an error or  *)
(* with one time bucket (MONTHLY) or one bucket per day (DAILY), each a    *)
(* list of per-service groups.                                             *)
(***************************************************************************)
MaxGroups    == 2
DaysInPeriod == 2

Months == 1..12
Years  == {2025, 2026}
Clock  == {[month |-> 11, year |-> 2026]}

ServiceNames == {"EC2", "S3", "Tax"}
AmountValues == {-1, 0, 1, 2}

Group(service, amount) == [Keys |-> <<service>>, Amount |-> amount]

\* the group lists of a bucket: at most MaxGroups groups, one per service
GroupLists ==
    {g \in SeqsUpTo({Group(sv, a) : sv \in ServiceNames, a \in AmountValues}, MaxGroups) :
        \A i, j \in 1..Len(g) : i # j => g[i].Keys # g[j].Keys}

LaterDayGroupLists == {<<>>, <<Group("EC2", 1)>>}

\* what get_cost_and_usage can do for a query of the given granularity
CostResponses(granularity) ==
    {[error |-> "ClientError"], [error |-> "EndpointConnectionError"]}
    \cup {[ResultsByTime |->
              <<[Groups |-> g]>> \o [i \in 1..Len(rest) |-> [Groups |-> rest[i]]]] :
          g \in GroupLists,
          rest \in IF granularity = "DAILY"
                   THEN {r \in SeqsUpTo(LaterDayGroupLists, DaysInPeriod - 1) :
                            Len(r) = DaysInPeriod - 1}
                   ELSE {<<>>}}

BillingInit ==
    /\ request \in [endpoint : {"preview", "report"}, clientName : {"acme"},
                    cloudProvider : {"AWS"}, month : Months, year : Years,
                    frequency : {"daily", "monthly"}]
    /\ now \in Clock
    /\ ce_query = None
    /\ ce_response = None
    /\ billing_data = None
    /\ http_response = None
    /\ bpc = "received"
    /\ NormalizeIdle
    /\ MetricsIdle
    /\ DiscoverIdle
    /\ SessionIdle

\* app.py 2447-2503, get_billing_preview
GetBillingPreview ==
    /\ bpc = "received"
    /\ request.endpoint = "preview"
    /\ LET query == CostQuery(request.month, request.year, request.frequency) IN
       \E response \in CostResponses(query.Granularity) :
          LET data == get_client_billing_data(request.month, request.year,
                                              request.frequency, response)
          IN  /\ ce_query' = query
              /\ ce_response' = response
              /\ billing_data' = data
              /\ http_response' =
                     IF data = Raised
                     THEN [status |-> 500, success |-> FALSE]
                     ELSE [status |-> 200, success |-> TRUE, billingData |-> data]
    /\ bpc' = "responded"
    /\ UNCHANGED <<request, now, normalizeVars, metricsVars, discoverVars, sessionVars>>

\* app.py 2337-2444, generate_report_api with reportType 'billing', and
\* report_generator.py 938-965, generate_comprehensive_report: the month and
\* year of the report are those of datetime.now(), the frequency the default
GenerateBillingReport ==
    /\ bpc = "received"
    /\ request.endpoint = "report"
    /\ LET month == now.month
           year  == now.year
           query == CostQuery(month, year, "monthly")
       IN  \E response \in CostResponses(query.Granularity) :
              LET data == get_client_billing_data(month, year, "monthly", response)
              IN  /\ ce_query' = query
                  /\ ce_response' = response
                  /\ billing_data' = data
                  /\ http_response' =
                         IF data = Raised
                         THEN [status |-> 500, success |-> FALSE]
                         ELSE [status |-> 200, success |-> TRUE,
                               pdf |-> create_billing_report(
                                           request.clientName, request.cloudProvider,
                                           month, year, data),
                               filename |-> <<request.clientName, request.clientName,
                                              request.month, request.year,
                                              "billing-report.pdf">>]
    /\ bpc' = "responded"
    /\ UNCHANGED <<request, now, normalizeVars, metricsVars, discoverVars, sessionVars>>

BillingNext ==
    \/ GetBillingPreview
    \/ GenerateBillingReport

SpecBilling == BillingInit /\ [][BillingNext]_vars

\* --- properties of a billing request -------------------------------------
HasBreakdown == billing_data # None /\ billing_data # Raised

RECURSIVE SumOf(_, _, _)
SumOf(q, amountOf(_), i) ==
    IF i > Len(q) THEN 0 ELSE amountOf(q[i]) + SumOf(q, amountOf, i + 1)

ListedSum == SumOf(billing_data.services, LAMBDA sv : sv.amount, 1)

BucketSum(bucket) == SumOf(bucket.Groups, LAMBDA g : g.Amount, 1)

PeriodSum == SumOf(ce_response.ResultsByTime, BucketSum, 1)

\* C3: for every returned CostBreakdown, whatever amounts the provider
\* returned, total_cost equals the sum of the listed services' amounts and
\* every listed service has amount > 0.
C3_TotalIsSumOfListed ==
    HasBreakdown =>
        /\ billing_data.total_cost = ListedSum
        /\ \A i \in 1..Len(billing_data.services) : billing_data.services[i].amount > 0

\* C4: total_cost equals the sum of the amounts of all groups the provider
\* returned for the requested period, before the zero-cost filter, for
\* daily and for monthly granularity.
C4_TotalCoversPeriod ==
    HasBreakdown => billing_data.total_cost = PeriodSum

\* the place of a service in the provider's first bucket
ProviderIndex(service) ==
    LET groups == ce_response.ResultsByTime[1].Groups IN
    CHOOSE i \in 1..Len(groups) : groups[i].Keys[1] = service

\* C5: the services list is sorted by amount in descending order, and
\* services with equal amounts keep the provider's relative order.
C5_SortedDescendingStable ==
    HasBreakdown =>
        \A i, j \in 1..Len(billing_data.services) :
            i < j =>
                LET a == billing_data.services[i]
                    b == billing_data.services[j]
                IN  /\ a.amount >= b.amount
                    /\ a.amount = b.amount =>
                           ProviderIndex(a.service) < ProviderIndex(b.service)

\* C5 witness: a breakdown listing two services of equal amount
C5_Witness ==
    /\ HasBreakdown
    /\ Len(billing_data.services) >= 2
    /\ billing_data.services[1].amount = billing_data.services[2].amount

\* C6: the billing report generated for a request covers the month and year
\* supplied in the request: the cost query and the billing-period label use
\* the requested (month, year).
C6_ReportCoversRequestedPeriod ==
    (bpc = "responded" /\ request.endpoint = "report" /\ http_response.success) =>
        /\ ce_query.TimePeriod.Start = Date(request.year, request.month, 1)
        /\ http_response.pdf.info.BillingPeriod = <<MonthName(request.month), request.year>>

\* C7: if the provider's cost-and-usage query fails, the operation fails as
\* a whole: neither the preview nor the report generation returns a success
\* result to the caller.
C7_ProviderFailureFailsOperation ==
    (bpc = "responded" /\ "error" \in DOMAIN ce_response) =>
        ~http_response.success

\* the month and year get_client_billing_data was called with
QueriedMonth == IF request.endpoint = "preview" THEN request.month ELSE now.month

QueriedYear == IF request.endpoint = "preview" THEN request.year ELSE now.year

\* C23: get_client_billing_data queries the half-open range from the first
\* day of the month it is given to the first day of the following month, for
\* every month 1..12: the end is in the same year for months 1..11 and is
\* 1 January of the next year for month 12.
C23_QueryRangeIsTheMonth ==
    bpc = "responded" =>
        LET following == QueriedYear * 12 + QueriedMonth  \* months since year 0
        IN  /\ ce_query.TimePeriod.Start = Date(QueriedYear, QueriedMonth, 1)
            /\ ce_query.TimePeriod.End =
                   Date(following \div 12, (following % 12) + 1, 1)

C23_Witness ==
    /\ bpc = "responded"
    /\ request.endpoint = "preview"
    /\ request.month = 12
    /\ ce_query.TimePeriod.End = Date(request.year + 1, 1, 1)

\* the rows the detailed table is to hold for a CostBreakdown: one row per
\* regular service, then a blank row and the tax rows if there are any, then
\* the total row
ExpectedRows(data) ==
    LET row(sv)  == <<sv.service, sv.amount>>
        regular  == SelectSeq(data.services, LAMBDA sv : sv.service # "Tax")
        tax      == SelectSeq(data.services, LAMBDA sv : sv.service = "Tax")
    IN  [j \in 1..Len(regular) |-> row(regular[j])]
        \o (IF tax = <<>> THEN <<>>
            ELSE <<<<"", 0>>>> \o [j \in 1..Len(tax) |-> row(tax[j])])
        \o <<<<"Total", data.total_cost>>>>

\* C22: the billing document holds, after the cover, a summary with the
\* total cost and the period, then a table with one row per service of the
\* CostBreakdown, the tax rows after the regular services and a blank row,
\* and the total row last.
C22_BillingDocumentListsCosts ==
    (bpc = "responded" /\ request.endpoint = "report" /\ http_response.success
        /\ HasBreakdown) =>
        LET pdf == http_response.pdf IN
        /\ "summary" \in DOMAIN pdf
        /\ pdf.summary = <<billing_data.total_cost, billing_data.period>>
        /\ "table" \in DOMAIN pdf
        /\ pdf.table = ExpectedRows(billing_data)

(***************************************************************************)
(* SpecNormalize: process_metric_data applied once to any list of at most  *)
(* MaxPoints datapoints, timestamps in 1..MaxTime (repeats allowed), the   *)
(* 'Average' key present (0, 1 or 3) or missing.                           *)
(***************************************************************************)
MaxPoints == 3
MaxTime   == 2

SampleValues == {FromInt(0), FromInt(1), FromInt(3)}

SampleDatapoints ==
    [Timestamp : 1..MaxTime, Average : SampleValues] \cup [Timestamp : 1..MaxTime]

NormalizeInit ==
    /\ metric_data \in {[Datapoints |-> d] : d \in SeqsUpTo(SampleDatapoints, MaxPoints)}
    /\ series = None
    /\ MetricsIdle
    /\ BillingIdle
    /\ DiscoverIdle
    /\ SessionIdle

ProcessMetricData ==
    /\ series = None
    /\ series' = process_metric_data(metric_data)
    /\ UNCHANGED <<metric_data, metricsVars, billingVars, discoverVars, sessionVars>>

NormalizeNext == ProcessMetricData

SpecNormalize == NormalizeInit /\ [][NormalizeNext]_vars

\* the (timestamp, value) pairs of a list of raw datapoints, as a bag
RECURSIVE CountIn(_, _, _)
CountIn(pairs, p, i) ==
    IF i > Len(pairs) THEN 0
    ELSE (IF pairs[i] = p THEN 1 ELSE 0) + CountIn(pairs, p, i + 1)

SameBag(a, b) ==
    /\ Len(a) = Len(b)
    /\ \A i \in 1..Len(a) : CountIn(a, a[i], 1) = CountIn(b, a[i], 1)

RawPairs(dps) == [i \in 1..Len(dps) |-> <<dps[i].Timestamp, AverageOf(dps[i])>>]

SeriesPairs(s) == [i \in 1..Len(s.timestamps) |-> <<s.timestamps[i], s.values[i]>>]

\* C1: for every list of raw datapoints, in any order, the returned
\* timestamps and values have equal length, the timestamps are
\* non-decreasing, and values[i] is the value of the datapoint whose
\* timestamp is timestamps[i] (the returned pairs are the input's pairs).
C1_SortedAligned ==
    series # None =>
        /\ Len(series.timestamps) = Len(series.values)
        /\ \A i \in 1..(Len(series.timestamps) - 1) :
               series.timestamps[i] <= series.timestamps[i + 1]
        /\ Len(series.timestamps) = Len(metric_data.Datapoints)
        /\ SameBag(SeriesPairs(series), RawPairs(metric_data.Datapoints))

\* C1 witness: an input given out of order, with values, has been processed
C1_Witness ==
    /\ series # None
    /\ Len(metric_data.Datapoints) = MaxPoints
    /\ metric_data.Datapoints[1].Timestamp > metric_data.Datapoints[2].Timestamp
    /\ AverageOf(metric_data.Datapoints[1]) # AverageOf(metric_data.Datapoints[2])

\* C2: for every non-empty list of datapoints min <= average <= max, min is
\* the smallest and max the largest element of values.
C2_StatsBracketAverage ==
    (series # None /\ metric_data.Datapoints # <<>>) =>
        /\ FLeq(series.min, series.average)
        /\ FLeq(series.average, series.max)
        /\ \E i \in 1..Len(series.values) : series.values[i] = series.min
        /\ \E i \in 1..Len(series.values) : series.values[i] = series.max
        /\ \A i \in 1..Len(series.values) :
               FLeq(series.min, series.values[i]) /\ FLeq(series.values[i], series.max)

====
